---- MODULE Spec2Model ----
(***************************************************************************)
(* Session orchestration engine of the Gemini automation manager           *)
(* (gemini_automation_extended.py): the task registry, the wave scheduler  *)
(* run_task, the per-session coroutine create_session with its Allow       *)
(* monitor, and stop_task's cancel-and-await loop, as asyncio coroutines   *)
(* that interleave at their await points.                                  *)
(*                                                                         *)
(* Every await that can suspend is a program-counter value; one action is  *)
(* the code a coroutine runs between two suspensions.  notify_clients is   *)
(* taken to suspend (a WebSocket subscriber is connected).  Sleeps carry   *)
(* no duration: any interleaving of the coroutines is a behaviour.         *)
(***************************************************************************)
EXTENDS Integers, Sequences, FiniteSets, TLC

\* ------------------------------------------------------------- bounds
MaxTasks == 1          \* create requests accepted
MaxSessionCount == 2   \* largest "sessions" value of a create request
MaxStarts == 2         \* start requests
MaxStops == 1          \* stop requests
MaxSessions == 1       \* session coroutines followed
MaxFaults == 1         \* bounded-wait timeouts and driver errors injected
MaxPairSessions == 2   \* session coroutines followed when a stop meets several
MaxPlanCount == 16     \* every session count up to it has its wave plan walked
MaxRequests == 3       \* HTTP requests whose responses are recorded
MaxClock == 2          \* milliseconds of loop time the create handler can read
MaxRounds == 2         \* loop rounds followed for a task of the basic manager

\* ------------------------------------------------- program constants
MaxIterations == 5     \* while ... and iteration < 5
SnapshotEvery == 10    \* if len(self.results) % 10 == 0
SmallTierMax == 100    \* if session_count <= 100
MediumTierMax == 500   \* elif session_count <= 500

VARIABLES
    clock,          \* asyncio loop time in ms, read by the create handler
    tasks,          \* manager.tasks: task id -> Task object (heap address)
    heap,           \* the Task objects, by address
    session_tasks,  \* manager.session_tasks: insertion-ordered dict key -> handle
    browser,        \* manager.browser is set
    runs,           \* run_task coroutines, in the order start_task spawned them
    sess,           \* create_session coroutines, by handle <<run, counter>>
    stops,          \* stop requests, in call order
    events,         \* lifecycle notifications passed to notify_clients
    faults,         \* timeouts and driver errors injected so far
    replies         \* HTTP responses of the request handlers, in order

vars == <<clock, tasks, heap, session_tasks, browser, runs, sess, stops, events, faults,
          replies>>

\* everything but the record of the HTTP responses
program == <<clock, tasks, heap, session_tasks, browser, runs, sess, stops, events, faults>>

\* ------------------------------------------------------ strings, keys
Digit(d) ==
    CASE d = 0 -> "0" [] d = 1 -> "1" [] d = 2 -> "2" [] d = 3 -> "3" [] d = 4 -> "4"
      [] d = 5 -> "5" [] d = 6 -> "6" [] d = 7 -> "7" [] d = 8 -> "8" [] d = 9 -> "9"

RECURSIVE Str(_)
\* str(n): the decimal digits of n, one character per element
Str(n) == IF n < 10 THEN <<Digit(n)>> ELSE Str(n \div 10) \o <<Digit(n % 10)>>

\* f"task_{int(loop.time() * 1000)}"
TaskIdAt(ms) == <<"task_">> \o Str(ms)

\* f"{task_id}_{session_id}"
SessionKey(task_id, session_id) == task_id \o <<"_">> \o session_id

\* k.startswith(p)
StartsWith(k, p) == Len(k) >= Len(p) /\ SubSeq(k, 1, Len(p)) = p

RECURSIVE Strip(_)
\* str.strip(): leading and trailing blanks removed
Strip(p) ==
    IF p = <<>> THEN p
    ELSE IF Head(p) = " " THEN Strip(Tail(p))
    ELSE IF p[Len(p)] = " " THEN Strip(SubSeq(p, 1, Len(p) - 1))
    ELSE p

Prompts == {<<>>, <<" ">>, <<"x">>, <<" ", "x">>}

Min(a, b) == IF a < b THEN a ELSE b
Max(a, b) == IF a > b THEN a ELSE b

\* ------------------------------------------- the insertion-ordered dict
\* session_tasks is a sequence of <<key, handle>> pairs, in insertion order.
DictKeys(d) == [i \in 1..Len(d) |-> d[i][1]]
DictHas(d, k) == \E i \in 1..Len(d) : d[i][1] = k
DictGet(d, k) == d[CHOOSE i \in 1..Len(d) : d[i][1] = k][2]
RECURSIVE DictDel(_, _)
DictDel(d, k) ==
    IF d = <<>> THEN d
    ELSE IF Head(d)[1] = k THEN Tail(d)
    ELSE <<Head(d)>> \o DictDel(Tail(d), k)
\* d[k] = h: an existing key keeps its position
DictSet(d, k, h) ==
    IF DictHas(d, k)
    THEN [i \in 1..Len(d) |-> IF d[i][1] = k THEN <<k, h>> ELSE d[i]]
    ELSE Append(d, <<k, h>>)

RECURSIVE KeysWithPrefix(_, _)
\* [k for k in self.session_tasks.keys() if k.startswith(task_id)]
KeysWithPrefix(d, id) ==
    IF d = <<>> THEN <<>>
    ELSE (IF StartsWith(Head(d)[1], id) THEN <<Head(d)[1]>> ELSE <<>>)
         \o KeysWithPrefix(Tail(d), id)

\* ------------------------------------------------------------ Task
NewTask(id, prompt, n) ==
    [id |-> id, prompt |-> prompt, session_count |-> n, status |-> "pending",
     active_sessions |-> 0, completed_sessions |-> 0, failed_sessions |-> 0,
     results |-> <<>>, saves |-> 0]

\* Task.save_to_file: one more snapshot of the task written
SaveToFile(t) == [t EXCEPT !.saves = @ + 1]

\* A faulty variant of SaveResult: the new record replaces the earlier ones.
SaveResult_Replace(t, session_id, success) ==
    LET t1 == [t EXCEPT !.results = <<[success |-> success]>>]
    IN  IF Len(t1.results) % SnapshotEvery = 0 THEN SaveToFile(t1) ELSE t1

\* Task.save_result; of an outcome record the success flag is kept
SaveResult(t, session_id, success) ==
    LET t1 == [t EXCEPT !.results = Append(@, [success |-> success])]
    IN  IF Len(t1.results) % SnapshotEvery = 0 THEN SaveToFile(t1) ELSE t1

\* A faulty variant of WaveEvent: the waves are numbered from 0.
WaveEvent_ZeroBased(t, wave, total) ==
    [type |-> "task_wave", task |-> t.id, status |-> t.status, wave |-> wave - 1,
     total |-> total]

Event(type, t) == [type |-> type, task |-> t.id, status |-> t.status, wave |-> 0, total |-> 0]
WaveEvent(t, wave, total) ==
    [type |-> "task_wave", task |-> t.id, status |-> t.status, wave |-> wave, total |-> total]

\* ------------------------------------------------------------ Init
Init ==
    /\ clock = 1
    /\ tasks = <<>>
    /\ heap = <<>>
    /\ session_tasks = <<>>
    /\ browser \in BOOLEAN      \* the startup hook's init_browser succeeded or failed
    /\ runs = <<>>
    /\ sess = <<>>
    /\ stops = <<>>
    /\ events = {}
    /\ faults = 0
    /\ replies = <<>>

\* --------------------------------------------------- control plane
\* A faulty variant of InvalidCreate: the session count is not looked at.
InvalidCreate_PromptOnly(prompt, n) == prompt = <<>>

\* if not prompt or session_count < 1: the request is refused
InvalidCreate(prompt, n) == prompt = <<>> \/ n < 1

\* POST /api/tasks and manager.add_task
create_task(p, n) ==
    /\ Len(heap) < MaxTasks
    /\ LET task_id == TaskIdAt(clock)
           prompt == Strip(p)
       IN  IF InvalidCreate(prompt, n)
           THEN UNCHANGED vars
           ELSE /\ heap' = Append(heap, NewTask(task_id, prompt, n))
                /\ tasks' = (task_id :> (Len(heap) + 1)) @@ tasks
                /\ events' = events \cup {Event("task_created", NewTask(task_id, prompt, n))}
                /\ UNCHANGED <<clock, session_tasks, browser, runs, sess, stops, faults, replies>>

NewRun(a) ==
    [task |-> a, pc |-> "spawned", sessions_per_wave |-> 0, waves_count |-> 0,
     wave_num |-> 0, session_id_counter |-> 0,
     sizes |-> <<>>]      \* history: the number of sessions created in each wave

\* POST /api/tasks/{id}/start and manager.start_task: the run is only spawned.
\* `most` start requests are taken.
start_task(task_id, most) ==
    /\ Len(runs) < most
    /\ task_id \in DOMAIN tasks
    /\ runs' = Append(runs, NewRun(tasks[task_id]))
    /\ events' = events \cup {Event("task_started", heap[tasks[task_id]])}
    /\ UNCHANGED <<clock, tasks, heap, session_tasks, browser, sess, stops, faults, replies>>

\* ------------------------------------------------------- run_task
\* A faulty variant of SessionsPerWaveChoices: the small tier is not capped at 3.
SessionsPerWaveChoices_Uncapped(session_count) ==
    IF session_count <= SmallTierMax THEN {Max(1, session_count \div 5)}
    ELSE IF session_count <= MediumTierMax THEN 5..10
    ELSE 10..20

\* the values sessions_per_wave can take for a session count
SessionsPerWaveChoices(session_count) ==
    IF session_count <= SmallTierMax THEN {Min(3, Max(1, session_count \div 5))}
    ELSE IF session_count <= MediumTierMax THEN 5..10
    ELSE 10..20

\* the same tiering in the basic manager (gemini_automation.py)
BasicSessionsPerWaveChoices(session_count) ==
    IF session_count <= 100 THEN {Min(3, Max(1, session_count \div 5))}
    ELSE IF session_count <= 500 THEN 5..10
    ELSE 10..20

\* A faulty variant of WavesCount: one wave too many when the division is exact.
WavesCount_OneMore(session_count, sessions_per_wave) ==
    (session_count + sessions_per_wave) \div sessions_per_wave

\* (session_count + sessions_per_wave - 1) // sessions_per_wave
WavesCount(session_count, sessions_per_wave) ==
    (session_count + sessions_per_wave - 1) \div sessions_per_wave

\* A faulty variant of SessionsInWave: the last wave is as large as the others.
SessionsInWave_NoRemainder(session_count, sessions_per_wave, wave_num) == sessions_per_wave

\* min(sessions_per_wave, session_count - wave_num * sessions_per_wave)
SessionsInWave(session_count, sessions_per_wave, wave_num) ==
    Min(sessions_per_wave, session_count - wave_num * sessions_per_wave)

\* a create_session coroutine wrapped by asyncio.create_task, not yet run
NewSession(task_id, session_id) ==
    [task_id |-> task_id, session_id |-> session_id, key |-> SessionKey(task_id, session_id),
     task |-> 0, pc |-> "spawned", iteration |-> 0,
     context |-> "none", page |-> "none", monitor |-> "none",
     cancel |-> FALSE,        \* a CancelledError is waiting to be thrown into it
     exc |-> FALSE,           \* an exception is propagating through the inner finally
     \* history of the session, read by the properties only
     cancelled |-> FALSE, fault |-> "none", fault_at |-> "none", stop_seen |-> FALSE,
     found |-> FALSE, overran |-> FALSE,
     added |-> 0, fails |-> 0, incs |-> 0, decs |-> 0]

RECURSIVE RegisterAll(_, _, _, _, _)
\* self.session_tasks[task_key] = session_task, for counters from..to
RegisterAll(d, r, task_id, from, to) ==
    IF from > to THEN d
    ELSE RegisterAll(DictSet(d, SessionKey(task_id, Str(from)), <<r, from>>),
                     r, task_id, from + 1, to)

\* the tail of run_task: status check, completion, final snapshot, notification
FinishRun(rec, hp, ev) ==
    LET a == rec.task IN
    IF hp[a].status = "running"
    THEN LET t == SaveToFile([hp[a] EXCEPT !.status = "completed"])
         IN  [run |-> [rec EXCEPT !.pc = "done"],
              heap |-> [hp EXCEPT ![a] = t],
              events |-> ev \cup {Event("task_completed", t)}]
    ELSE [run |-> [rec EXCEPT !.pc = "done"], heap |-> hp, events |-> ev]

\* run_task from the head of the wave loop up to its next await
ContinueRun(rec, hp, d, ev) ==
    LET t == hp[rec.task] IN
    IF rec.wave_num < rec.waves_count /\ t.status = "running"
    THEN [run |-> [rec EXCEPT !.pc = "wave_notify"], heap |-> hp,
          events |-> ev \cup {WaveEvent(t, rec.wave_num + 1, rec.waves_count)}]
    ELSE IF KeysWithPrefix(d, t.id) # <<>>
    THEN [run |-> [rec EXCEPT !.pc = "wait_all"], heap |-> hp, events |-> ev]
    ELSE FinishRun(rec, hp, ev)

\* the wave plan, then the wave loop
PlanAndContinue(rec, hp, d, ev, spw) ==
    LET n == hp[rec.task].session_count IN
    ContinueRun([rec EXCEPT !.sessions_per_wave = spw,
                            !.waves_count = WavesCount(n, spw),
                            !.wave_num = 0, !.session_id_counter = 0, !.sizes = <<>>],
                hp, d, ev)

\* run_task's first step: status and counters are reset before anything else
RunBegin(r) ==
    /\ runs[r].pc = "spawned"
    /\ LET a == runs[r].task
           hp == [heap EXCEPT ![a].status = "running", ![a].active_sessions = 0,
                              ![a].completed_sessions = 0, ![a].failed_sessions = 0]
       IN  IF ~browser
           THEN /\ runs' = [runs EXCEPT ![r].pc = "init_browser"]
                /\ heap' = hp
                /\ UNCHANGED events
           ELSE \E spw \in SessionsPerWaveChoices(hp[a].session_count) :
                  LET nx == PlanAndContinue(runs[r], hp, session_tasks, events, spw)
                  IN  /\ runs' = [runs EXCEPT ![r] = nx.run]
                      /\ heap' = nx.heap
                      /\ events' = nx.events
    /\ UNCHANGED <<clock, tasks, session_tasks, browser, sess, stops, faults, replies>>

\* await self.init_browser() returned
InitBrowserDone(r) ==
    /\ runs[r].pc = "init_browser"
    /\ browser' = TRUE
    /\ \E spw \in SessionsPerWaveChoices(heap[runs[r].task].session_count) :
         LET nx == PlanAndContinue(runs[r], heap, session_tasks, events, spw)
         IN  /\ runs' = [runs EXCEPT ![r] = nx.run]
             /\ heap' = nx.heap
             /\ events' = nx.events
    /\ UNCHANGED <<clock, tasks, session_tasks, sess, stops, faults, replies>>

\* init_browser raised: the exception ends run_task, nobody awaits it
InitBrowserFailed(r) ==
    /\ runs[r].pc = "init_browser"
    /\ runs' = [runs EXCEPT ![r].pc = "failed"]
    /\ UNCHANGED <<clock, tasks, heap, session_tasks, browser, sess, stops, events, faults, replies>>

\* the sessions run r creates in the wave it is about to launch
WaveSize(r) ==
    IF heap[runs[r].task].status = "running"
    THEN SessionsInWave(heap[runs[r].task].session_count, runs[r].sessions_per_wave,
                        runs[r].wave_num)
    ELSE 0

\* after the task_wave notification: the sessions of the wave are created and
\* registered, then the inter-wave sleep or the end of the wave loop.
\* A wave is followed while it keeps the session coroutines within `most`.
WaveLaunchWithin(r, most) ==
    /\ runs[r].pc = "wave_notify"
    /\ Cardinality(DOMAIN sess) + WaveSize(r) <= most
    /\ LET rec == runs[r]
           t == heap[rec.task]
           c == rec.session_id_counter
           n == WaveSize(r)
           new == {<<r, i>> : i \in (c + 1)..(c + n)}
           d == RegisterAll(session_tasks, r, t.id, c + 1, c + n)
           rec1 == [rec EXCEPT !.session_id_counter = c + n, !.sizes = Append(@, n)]
       IN  /\ session_tasks' = d
           /\ sess' = [h \in DOMAIN sess \cup new |->
                          IF h \in new THEN NewSession(t.id, Str(h[2])) ELSE sess[h]]
           /\ IF rec.wave_num < rec.waves_count - 1
              THEN /\ runs' = [runs EXCEPT ![r] = [rec1 EXCEPT !.pc = "wave_sleep"]]
                   /\ UNCHANGED <<heap, events>>
              ELSE LET nx == ContinueRun([rec1 EXCEPT !.wave_num = @ + 1], heap, d, events)
                   IN  /\ runs' = [runs EXCEPT ![r] = nx.run]
                       /\ heap' = nx.heap
                       /\ events' = nx.events
    /\ UNCHANGED <<clock, tasks, browser, stops, faults, replies>>

WaveLaunch(r) == WaveLaunchWithin(r, MaxSessions)

\* the same step of the wave loop with the sessions it creates left out of
\* sight: the wave plan alone, for session counts too large to follow
WaveDispatch(r) ==
    /\ runs[r].pc = "wave_notify"
    /\ LET rec == runs[r]
           n == WaveSize(r)
           rec1 == [rec EXCEPT !.session_id_counter = @ + n, !.sizes = Append(@, n)]
       IN  IF rec.wave_num < rec.waves_count - 1
           THEN /\ runs' = [runs EXCEPT ![r] = [rec1 EXCEPT !.pc = "wave_sleep"]]
                /\ UNCHANGED <<heap, events>>
           ELSE LET nx == ContinueRun([rec1 EXCEPT !.wave_num = @ + 1], heap,
                                      session_tasks, events)
                IN  /\ runs' = [runs EXCEPT ![r] = nx.run]
                    /\ heap' = nx.heap
                    /\ events' = nx.events
    /\ UNCHANGED <<clock, tasks, session_tasks, browser, sess, stops, faults, replies>>

\* await asyncio.sleep(delay_between_waves) returned
WaveWake(r) ==
    /\ runs[r].pc = "wave_sleep"
    /\ LET nx == ContinueRun([runs[r] EXCEPT !.wave_num = @ + 1], heap, session_tasks, events)
       IN  /\ runs' = [runs EXCEPT ![r] = nx.run]
           /\ heap' = nx.heap
           /\ events' = nx.events
    /\ UNCHANGED <<clock, tasks, session_tasks, browser, sess, stops, faults, replies>>

\* the 2 s poll of the wait loop finds no key of the task left
WaitAllDone(r) ==
    /\ runs[r].pc = "wait_all"
    /\ KeysWithPrefix(session_tasks, heap[runs[r].task].id) = <<>>
    /\ LET nx == FinishRun(runs[r], heap, events)
       IN  /\ runs' = [runs EXCEPT ![r] = nx.run]
           /\ heap' = nx.heap
           /\ events' = nx.events
    /\ UNCHANGED <<clock, tasks, session_tasks, browser, sess, stops, faults, replies>>

\* -------------------------------------------------- create_session
\* A faulty variant of LoopCheck: the loop tests the status only.
LoopCheck_Unbounded(rec, hp) ==
    IF hp[rec.task].status = "running"
    THEN [s |-> [rec EXCEPT !.iteration = @ + 1, !.pc = "interacting"], heap |-> hp]
    ELSE [s |-> [rec EXCEPT !.pc = "content", !.decs = @ + 1, !.stop_seen = TRUE],
          heap |-> [hp EXCEPT ![rec.task].active_sessions = @ - 1]]

\* while task.status == "running" and iteration < 5, up to the next await
LoopCheck(rec, hp) ==
    IF hp[rec.task].status = "running" /\ rec.iteration < MaxIterations
    THEN [s |-> [rec EXCEPT !.iteration = @ + 1, !.pc = "interacting"], heap |-> hp]
    ELSE [s |-> [rec EXCEPT !.pc = "content", !.decs = @ + 1,
                            !.stop_seen = @ \/ hp[rec.task].status # "running"],
          heap |-> [hp EXCEPT ![rec.task].active_sessions = @ - 1]]

\* a break or an exception leaves the loop: the inner finally starts
\* (active_sessions -= 1, the log file, then await page.content())
BeginCleanup(rec, hp) ==
    [s |-> [rec EXCEPT !.pc = "content", !.decs = @ + 1],
     heap |-> [hp EXCEPT ![rec.task].active_sessions = @ - 1]]

\* A faulty variant of OuterExcept: the failure of a session stops its task.
OuterExcept_StopsTask(rec, hp, d) ==
    [s |-> [rec EXCEPT !.pc = "done", !.exc = FALSE, !.cancel = FALSE, !.fails = @ + 1],
     heap |-> [hp EXCEPT ![rec.task].failed_sessions = @ + 1, ![rec.task].status = "stopped"],
     dict |-> DictDel(d, rec.key)]

\* except asyncio.CancelledError / except Exception of the outer try
\* (failed_sessions += 1), then the outer finally (the key is deleted)
OuterExcept(rec, hp, d) ==
    [s |-> [rec EXCEPT !.pc = "done", !.exc = FALSE, !.cancel = FALSE, !.fails = @ + 1],
     heap |-> [hp EXCEPT ![rec.task].failed_sessions = @ + 1],
     dict |-> DictDel(d, rec.key)]

\* the inner finally ran to its end: a propagating exception reaches the
\* outer except, otherwise only the outer finally runs
EndCleanup(rec, hp, d) ==
    IF rec.exc THEN OuterExcept(rec, hp, d)
    ELSE [s |-> [rec EXCEPT !.pc = "done"], heap |-> hp, dict |-> DictDel(d, rec.key)]

\* a session that may take its next ordinary step
Runs(h, pc) == h \in DOMAIN sess /\ sess[h].pc = pc /\ ~sess[h].cancel

\* first step of the coroutine: the Task object is looked up, the start delay begins
SessStart(h) ==
    /\ Runs(h, "spawned")
    /\ sess' = [sess EXCEPT ![h].task = tasks[sess[h].task_id], ![h].pc = "delay"]
    /\ UNCHANGED <<clock, tasks, heap, session_tasks, browser, runs, stops, events, faults, replies>>

\* the start delay elapsed: browser check, then await browser.new_context()
SessWake(h) ==
    /\ Runs(h, "delay")
    /\ IF ~browser
       THEN LET nx == OuterExcept(sess[h], heap, session_tasks)
            IN  /\ sess' = [sess EXCEPT ![h] = nx.s]
                /\ heap' = nx.heap
                /\ session_tasks' = nx.dict
       ELSE /\ sess' = [sess EXCEPT ![h].pc = "new_context"]
            /\ UNCHANGED <<heap, session_tasks>>
    /\ UNCHANGED <<clock, tasks, browser, runs, stops, events, faults, replies>>

\* new_context() returned: await context.new_page()
SessContext(h) ==
    /\ Runs(h, "new_context")
    /\ sess' = [sess EXCEPT ![h].context = "open", ![h].pc = "new_page"]
    /\ UNCHANGED <<clock, tasks, heap, session_tasks, browser, runs, stops, events, faults, replies>>

\* new_page() returned: await page.add_init_script()
SessPage(h) ==
    /\ Runs(h, "new_page")
    /\ sess' = [sess EXCEPT ![h].page = "open", ![h].pc = "init_script"]
    /\ UNCHANGED <<clock, tasks, heap, session_tasks, browser, runs, stops, events, faults, replies>>

\* add_init_script() returned: active_sessions += 1, await notify_clients(task_update)
SessScript(h) ==
    /\ Runs(h, "init_script")
    /\ sess' = [sess EXCEPT ![h].incs = @ + 1, ![h].pc = "notify_start"]
    /\ heap' = [heap EXCEPT ![sess[h].task].active_sessions = @ + 1]
    /\ UNCHANGED <<clock, tasks, session_tasks, browser, runs, stops, events, faults, replies>>

\* the notification returned: the inner try is entered, first loop test
SessNotified(h) ==
    /\ Runs(h, "notify_start")
    /\ LET nx == LoopCheck(sess[h], heap)
       IN  /\ sess' = [sess EXCEPT ![h] = nx.s]
           /\ heap' = nx.heap
    /\ UNCHANGED <<clock, tasks, session_tasks, browser, runs, stops, events, faults, replies>>

\* navigation, input and submit went through (goto, the input field, the typing,
\* the click on Run): the Allow monitor is spawned, await asyncio.sleep(330)
SessSubmit(h) ==
    /\ Runs(h, "interacting")
    /\ sess' = [sess EXCEPT ![h].monitor = "running", ![h].pc = "outcome"]
    /\ UNCHANGED <<clock, tasks, heap, session_tasks, browser, runs, stops, events, faults, replies>>

\* the outcome window elapsed: allow_task.cancel(), await allow_task
SessOutcome(h) ==
    /\ Runs(h, "outcome")
    /\ sess' = [sess EXCEPT ![h].monitor = "cancelling", ![h].pc = "await_allow"]
    /\ UNCHANGED <<clock, tasks, heap, session_tasks, browser, runs, stops, events, faults, replies>>

\* the awaits of _monitor_and_click_allow; the monitor cycles through them for
\* as long as it runs, so a cancellation may find it on any of them
MonitorAwaits == {"query", "jitter", "click", "post_click", "poll"}

\* the monitor after a CancelledError is thrown into it at its await: caught by
\* `except asyncio.CancelledError: break` on the poll sleep, by the bare
\* `except: pass` on the awaits of the inner try, after which it polls on
MonitorAfterCancel(at) == IF at = "poll" THEN "finished" ELSE "running"

\* the Allow monitor takes the cancellation requested of it
MonitorCancelled(h, at) ==
    /\ h \in DOMAIN sess
    /\ sess[h].monitor = "cancelling"
    /\ sess' = [sess EXCEPT ![h].monitor = MonitorAfterCancel(at)]
    /\ UNCHANGED <<clock, tasks, heap, session_tasks, browser, runs, stops, events, faults, replies>>

\* await allow_task returned (the monitor task is done): await _wait_and_click_restart
\* A CancelledError thrown at this await is caught by `except CancelledError: pass`
\* around it, so a session cancelled here goes on the same way.
SessAllowDone(h) ==
    /\ h \in DOMAIN sess
    /\ sess[h].pc = "await_allow"
    /\ sess[h].monitor = "finished"
    /\ sess' = [sess EXCEPT ![h].monitor = "none", ![h].pc = "restart", ![h].cancel = FALSE]
    /\ UNCHANGED <<clock, tasks, heap, session_tasks, browser, runs, stops, events, faults, replies>>

\* A faulty variant of IterationDone: the counter is written back from the
\* session's own tally, so the increments of other sessions are lost.
IterationDone_LostUpdate(rec, hp) ==
    LET t == hp[rec.task] IN
    LoopCheck([rec EXCEPT !.added = @ + 1],
              [hp EXCEPT ![rec.task] =
                  SaveResult([t EXCEPT !.completed_sessions = rec.added + 1],
                             rec.session_id, TRUE)])

\* the iteration's end: completed_sessions += 1, save_result, next loop test
IterationDone(rec, hp) ==
    LET t == hp[rec.task] IN
    LoopCheck([rec EXCEPT !.added = @ + 1],
              [hp EXCEPT ![rec.task] =
                  SaveResult([t EXCEPT !.completed_sessions = @ + 1], rec.session_id, TRUE)])

\* A faulty variant of AfterRestartWait: the expiry of the restart wait is not
\* swallowed but reaches the loop's `except PlaywrightTimeoutError`.
AfterRestartWait_TimeoutPropagates(rec, hp, found) ==
    IF found THEN IterationDone([rec EXCEPT !.found = TRUE], hp)
    ELSE BeginCleanup([rec EXCEPT !.overran = TRUE, !.fails = @ + 1],
                      [hp EXCEPT ![rec.task].failed_sessions = @ + 1])

\* A faulty variant of AfterRestartWait: the expiry of the restart wait is
\* counted as a failure of the session, which then goes on.
AfterRestartWait_CountsFailure(rec, hp, found) ==
    IF found THEN IterationDone([rec EXCEPT !.found = TRUE], hp)
    ELSE IterationDone([rec EXCEPT !.overran = TRUE, !.fails = @ + 1],
                       [hp EXCEPT ![rec.task].failed_sessions = @ + 1])

\* _wait_and_click_restart: Restart appeared and was clicked (found), or the
\* 60 s wait expired, which `except PlaywrightTimeoutError` logs and swallows;
\* either way it returns and the iteration ends
AfterRestartWait(rec, hp, found) ==
    IterationDone([rec EXCEPT !.found = @ \/ found, !.overran = @ \/ ~found], hp)

SessRestart(h, found) ==
    /\ Runs(h, "restart")
    /\ LET nx == AfterRestartWait(sess[h], heap, found)
       IN  /\ sess' = [sess EXCEPT ![h] = nx.s]
           /\ heap' = nx.heap
    /\ UNCHANGED <<clock, tasks, session_tasks, browser, runs, stops, events, faults, replies>>

\* page.content() returned or raised (except Exception: logged): await page.close()
SessContent(h) ==
    /\ Runs(h, "content")
    /\ sess' = [sess EXCEPT ![h].pc = "page_close"]
    /\ UNCHANGED <<clock, tasks, heap, session_tasks, browser, runs, stops, events, faults, replies>>

\* page.close() returned: await context.close()
SessPageClose(h) ==
    /\ Runs(h, "page_close")
    /\ sess' = [sess EXCEPT ![h].page = "closed", ![h].pc = "context_close"]
    /\ UNCHANGED <<clock, tasks, heap, session_tasks, browser, runs, stops, events, faults, replies>>

\* context.close() returned: await notify_clients(task_update)
SessContextClose(h) ==
    /\ Runs(h, "context_close")
    /\ sess' = [sess EXCEPT ![h].context = "closed", ![h].pc = "notify_end"]
    /\ UNCHANGED <<clock, tasks, heap, session_tasks, browser, runs, stops, events, faults, replies>>

\* the last notification returned: the inner finally is over
SessNotifyEnd(h) ==
    /\ Runs(h, "notify_end")
    /\ LET nx == EndCleanup(sess[h], heap, session_tasks)
       IN  /\ sess' = [sess EXCEPT ![h] = nx.s]
           /\ heap' = nx.heap
           /\ session_tasks' = nx.dict
    /\ UNCHANGED <<clock, tasks, browser, runs, stops, events, faults, replies>>

\* the bounded waits of an iteration before the outcome window: page.goto and
\* wait_for_load_state, wait_for_selector(input), wait_for_selector(submit)
BoundedWaits == {"navigation", "input_wait", "submit_wait"}

\* A faulty variant of OnTimeout: the handler counts the failure but does not
\* break, so the loop goes on to its next test.
OnTimeout_NoBreak(rec, hp, wait) ==
    LoopCheck([rec EXCEPT !.fails = @ + 1, !.fault = "timeout", !.fault_at = wait],
              [hp EXCEPT ![rec.task].failed_sessions = @ + 1])

\* except PlaywrightTimeoutError: failed_sessions += 1; break
OnTimeout(rec, hp, wait) ==
    BeginCleanup([rec EXCEPT !.fails = @ + 1, !.fault = "timeout", !.fault_at = wait],
                 [hp EXCEPT ![rec.task].failed_sessions = @ + 1])

\* a bounded wait of the iteration expired; `most` faults are injected
SessTimeoutWithin(h, wait, most) ==
    /\ faults < most
    /\ Runs(h, "interacting")
    /\ LET nx == OnTimeout(sess[h], heap, wait)
       IN  /\ sess' = [sess EXCEPT ![h] = nx.s]
           /\ heap' = nx.heap
    /\ faults' = faults + 1
    /\ UNCHANGED <<clock, tasks, session_tasks, browser, runs, stops, events, replies>>

SessTimeout(h, wait) == SessTimeoutWithin(h, wait, MaxFaults)

\* a driver call raised an exception that is not a timeout
OnDriverError(rec, hp, d) ==
    IF rec.pc = "interacting"
    THEN \* not caught in the loop: through the inner finally, exception pending
         LET nx == BeginCleanup([rec EXCEPT !.exc = TRUE, !.fault = "error"], hp)
         IN  [s |-> nx.s, heap |-> nx.heap, dict |-> d]
    ELSE \* before the inner try, or inside the inner finally
         OuterExcept([rec EXCEPT !.fault = "error"], hp, d)

SessDriverErrorWithin(h, most) ==
    /\ faults < most
    /\ h \in DOMAIN sess /\ ~sess[h].cancel
    /\ sess[h].pc \in {"new_context", "new_page", "init_script", "interacting",
                      "page_close", "context_close"}
    /\ LET nx == OnDriverError(sess[h], heap, session_tasks)
       IN  /\ sess' = [sess EXCEPT ![h] = nx.s]
           /\ heap' = nx.heap
           /\ session_tasks' = nx.dict
    /\ faults' = faults + 1
    /\ UNCHANGED <<clock, tasks, browser, runs, stops, events, replies>>

SessDriverError(h) == SessDriverErrorWithin(h, MaxFaults)

\* the session after a CancelledError is thrown into it at its await
OnCancelled(rec, hp, d) ==
    IF rec.pc = "spawned"
    THEN \* the coroutine never ran: no handler, no finally, the key stays
         [s |-> [rec EXCEPT !.pc = "done", !.cancel = FALSE], heap |-> hp, dict |-> d]
    ELSE IF rec.pc \in {"interacting", "outcome", "restart"}
    THEN \* except asyncio.CancelledError: break
         LET nx == BeginCleanup([rec EXCEPT !.cancel = FALSE], hp)
         IN  [s |-> nx.s, heap |-> nx.heap, dict |-> d]
    ELSE \* outside the loop's try: the outer except asyncio.CancelledError
         OuterExcept(rec, hp, d)

SessCancelled(h) ==
    /\ h \in DOMAIN sess
    /\ sess[h].cancel
    /\ sess[h].pc # "await_allow"
    /\ LET nx == OnCancelled(sess[h], heap, session_tasks)
       IN  /\ sess' = [sess EXCEPT ![h] = nx.s]
           /\ heap' = nx.heap
           /\ session_tasks' = nx.dict
    /\ UNCHANGED <<clock, tasks, browser, runs, stops, events, faults, replies>>

\* --------------------------------------------------------- stop_task
\* asyncio.Task.cancel() on a session handle.  A session suspended on
\* `await allow_task` passes the request on to the monitor task it awaits;
\* any other unfinished session has a CancelledError thrown at its await.
RequestCancel(ss, h) ==
    IF ss[h].pc = "done" THEN ss
    ELSE IF ss[h].pc = "await_allow" /\ ss[h].monitor # "finished"
    THEN [ss EXCEPT ![h].monitor = "cancelling", ![h].cancelled = TRUE]
    ELSE [ss EXCEPT ![h].cancel = TRUE, ![h].cancelled = TRUE]

NewStop(a, id, keys) ==
    [task |-> a, task_id |-> id, pc |-> "loop", keys |-> keys, key |-> <<>>,
     awaited |-> <<0, 0>>,
     \* history: the runs of the task and the events emitted when stop was called
     runs_at_call |-> {r \in 1..Len(runs) : runs[r].task = a},
     first_wave |-> \A r \in 1..Len(runs) :
                        runs[r].task = a =>
                            /\ runs[r].pc \in {"spawned", "init_browser", "wave_notify", "wave_sleep"}
                            /\ runs[r].wave_num = 0]

RECURSIVE StopLoop(_, _, _)
\* for key in keys_to_remove: cancel, await, delete; up to the next await that
\* suspends, the KeyError of a key that is gone, or the end of the loop
StopLoop(st, d, ss) ==
    IF st.keys = <<>> THEN [stop |-> [st EXCEPT !.pc = "returned"], dict |-> d, sess |-> ss]
    ELSE LET key == Head(st.keys) IN
         IF ~DictHas(d, key)
         THEN [stop |-> [st EXCEPT !.pc = "raised", !.key = key], dict |-> d, sess |-> ss]
         ELSE LET h == DictGet(d, key)
                  ss1 == RequestCancel(ss, h)
              IN  IF ss1[h].pc = "done"
                  THEN StopLoop([st EXCEPT !.keys = Tail(@)], DictDel(d, key), ss1)
                  ELSE [stop |-> [st EXCEPT !.pc = "awaiting", !.keys = Tail(@),
                                            !.key = key, !.awaited = h],
                        dict |-> d, sess |-> ss1]

\* what follows the loop when stop_task returns: task.save_to_file(), and the
\* handler's notification of task_stopped
AfterStop(nx, hp, ev) ==
    IF nx.stop.pc = "returned"
    THEN LET t == SaveToFile(hp[nx.stop.task])
         IN  [heap |-> [hp EXCEPT ![nx.stop.task] = t],
              events |-> ev \cup {Event("task_stopped", t)}]
    ELSE [heap |-> hp, events |-> ev]

StopInProgress == \E i \in 1..Len(stops) : stops[i].pc = "awaiting"

\* POST /api/tasks/{id}/stop and manager.stop_task up to its first suspension.
\* A stop request is taken only while no other stop is awaiting a session.
stop_task(task_id) ==
    /\ Len(stops) < MaxStops
    /\ ~StopInProgress
    /\ task_id \in DOMAIN tasks
    /\ LET a == tasks[task_id]
           hp == [heap EXCEPT ![a].status = "stopped"]
           nx == StopLoop(NewStop(a, task_id, KeysWithPrefix(session_tasks, task_id)),
                          session_tasks, sess)
           fin == AfterStop(nx, hp, events)
       IN  /\ stops' = Append(stops, nx.stop)
           /\ session_tasks' = nx.dict
           /\ sess' = nx.sess
           /\ heap' = fin.heap
           /\ events' = fin.events
    /\ UNCHANGED <<clock, tasks, browser, runs, faults, replies>>

\* the awaited session task is done: `if key in self.session_tasks: del`, next key
StopResume(i) ==
    /\ stops[i].pc = "awaiting"
    /\ sess[stops[i].awaited].pc = "done"
    /\ LET nx == StopLoop(stops[i], DictDel(session_tasks, stops[i].key), sess)
           fin == AfterStop(nx, heap, events)
       IN  /\ stops' = [stops EXCEPT ![i] = nx.stop]
           /\ session_tasks' = nx.dict
           /\ sess' = nx.sess
           /\ heap' = fin.heap
           /\ events' = fin.events
    /\ UNCHANGED <<clock, tasks, browser, runs, faults, replies>>

\* ------------------------------------------------------------- Spec
Next ==
    \/ \E p \in Prompts, n \in 0..MaxSessionCount : create_task(p, n)
    \/ \E id \in DOMAIN tasks : start_task(id, MaxStarts)
    \/ \E id \in DOMAIN tasks : stop_task(id)
    \/ \E i \in 1..Len(stops) : StopResume(i)
    \/ \E r \in 1..Len(runs) : RunBegin(r)
    \/ \E r \in 1..Len(runs) : InitBrowserDone(r)
    \/ \E r \in 1..Len(runs) : InitBrowserFailed(r)
    \/ \E r \in 1..Len(runs) : WaveLaunch(r)
    \/ \E r \in 1..Len(runs) : WaveWake(r)
    \/ \E r \in 1..Len(runs) : WaitAllDone(r)
    \/ \E h \in DOMAIN sess : SessStart(h)
    \/ \E h \in DOMAIN sess : SessWake(h)
    \/ \E h \in DOMAIN sess : SessContext(h)
    \/ \E h \in DOMAIN sess : SessPage(h)
    \/ \E h \in DOMAIN sess : SessScript(h)
    \/ \E h \in DOMAIN sess : SessNotified(h)
    \/ \E h \in DOMAIN sess : SessSubmit(h)
    \/ \E h \in DOMAIN sess : SessOutcome(h)
    \/ \E h \in DOMAIN sess, at \in MonitorAwaits : MonitorCancelled(h, at)
    \/ \E h \in DOMAIN sess : SessAllowDone(h)
    \/ \E h \in DOMAIN sess, found \in BOOLEAN : SessRestart(h, found)
    \/ \E h \in DOMAIN sess : SessContent(h)
    \/ \E h \in DOMAIN sess : SessPageClose(h)
    \/ \E h \in DOMAIN sess : SessContextClose(h)
    \/ \E h \in DOMAIN sess : SessNotifyEnd(h)
    \/ \E h \in DOMAIN sess, wait \in BoundedWaits : SessTimeout(h, wait)
    \/ \E h \in DOMAIN sess : SessDriverError(h)
    \/ \E h \in DOMAIN sess : SessCancelled(h)

Spec == Init /\ [][Next]_vars

\* One task, one start request and no stop request: the sessions of a run
\* that is never cancelled.
SessionNext ==
    \/ heap = <<>> /\ \E p \in Prompts, n \in 0..MaxSessionCount : create_task(p, n)
    \/ \E id \in DOMAIN tasks : start_task(id, 1)
    \/ \E r \in 1..Len(runs) : RunBegin(r)
    \/ \E r \in 1..Len(runs) : InitBrowserDone(r)
    \/ \E r \in 1..Len(runs) : InitBrowserFailed(r)
    \/ \E r \in 1..Len(runs) : WaveLaunch(r)
    \/ \E r \in 1..Len(runs) : WaveWake(r)
    \/ \E r \in 1..Len(runs) : WaitAllDone(r)
    \/ \E h \in DOMAIN sess : SessStart(h)
    \/ \E h \in DOMAIN sess : SessWake(h)
    \/ \E h \in DOMAIN sess : SessContext(h)
    \/ \E h \in DOMAIN sess : SessPage(h)
    \/ \E h \in DOMAIN sess : SessScript(h)
    \/ \E h \in DOMAIN sess : SessNotified(h)
    \/ \E h \in DOMAIN sess : SessSubmit(h)
    \/ \E h \in DOMAIN sess : SessOutcome(h)
    \/ \E h \in DOMAIN sess, at \in MonitorAwaits : MonitorCancelled(h, at)
    \/ \E h \in DOMAIN sess : SessAllowDone(h)
    \/ \E h \in DOMAIN sess, found \in BOOLEAN : SessRestart(h, found)
    \/ \E h \in DOMAIN sess : SessContent(h)
    \/ \E h \in DOMAIN sess : SessPageClose(h)
    \/ \E h \in DOMAIN sess : SessContextClose(h)
    \/ \E h \in DOMAIN sess : SessNotifyEnd(h)
    \/ \E h \in DOMAIN sess, wait \in BoundedWaits : SessTimeout(h, wait)
    \/ \E h \in DOMAIN sess : SessDriverError(h)

SessionSpec == Init /\ [][SessionNext]_vars

\* the sessions already created have begun and slept their start delay, which
\* is at most 15 s while the sleep between two waves is at least 20 s
EarlierWavesUnderWay == \A h \in DOMAIN sess : sess[h].pc \notin {"spawned", "delay"}

\* One task, one start request, a stop request, no timeout and no driver
\* error: a stop that meets several sessions of the task.
PairNext ==
    \/ heap = <<>> /\ \E p \in Prompts, n \in 0..MaxSessionCount : create_task(p, n)
    \/ \E id \in DOMAIN tasks : start_task(id, 1)
    \/ \E id \in DOMAIN tasks : stop_task(id)
    \/ \E i \in 1..Len(stops) : StopResume(i)
    \/ \E r \in 1..Len(runs) : RunBegin(r)
    \/ \E r \in 1..Len(runs) : InitBrowserDone(r)
    \/ \E r \in 1..Len(runs) : InitBrowserFailed(r)
    \/ \E r \in 1..Len(runs) : WaveLaunchWithin(r, MaxPairSessions)
    \/ \E r \in 1..Len(runs) : EarlierWavesUnderWay /\ WaveWake(r)
    \/ \E r \in 1..Len(runs) : WaitAllDone(r)
    \/ \E h \in DOMAIN sess : SessStart(h)
    \/ \E h \in DOMAIN sess : SessWake(h)
    \/ \E h \in DOMAIN sess : SessContext(h)
    \/ \E h \in DOMAIN sess : SessPage(h)
    \/ \E h \in DOMAIN sess : SessScript(h)
    \/ \E h \in DOMAIN sess : SessNotified(h)
    \/ \E h \in DOMAIN sess : SessSubmit(h)
    \/ \E h \in DOMAIN sess : SessOutcome(h)
    \/ \E h \in DOMAIN sess, at \in MonitorAwaits : MonitorCancelled(h, at)
    \/ \E h \in DOMAIN sess : SessAllowDone(h)
    \/ \E h \in DOMAIN sess : SessRestart(h, TRUE)
    \/ \E h \in DOMAIN sess : SessContent(h)
    \/ \E h \in DOMAIN sess : SessPageClose(h)
    \/ \E h \in DOMAIN sess : SessContextClose(h)
    \/ \E h \in DOMAIN sess : SessNotifyEnd(h)
    \/ \E h \in DOMAIN sess : SessCancelled(h)

PairSpec == Init /\ [][PairNext]_vars

\* One task, one start request and stop requests, no timeout and no driver
\* error: the iterations of a session whose task may be stopped at any moment.
LoopNext ==
    \/ heap = <<>> /\ \E p \in Prompts, n \in 0..MaxSessionCount : create_task(p, n)
    \/ \E id \in DOMAIN tasks : start_task(id, 1)
    \/ \E id \in DOMAIN tasks : stop_task(id)
    \/ \E i \in 1..Len(stops) : StopResume(i)
    \/ \E r \in 1..Len(runs) : RunBegin(r)
    \/ \E r \in 1..Len(runs) : InitBrowserDone(r)
    \/ \E r \in 1..Len(runs) : InitBrowserFailed(r)
    \/ \E r \in 1..Len(runs) : WaveLaunch(r)
    \/ \E r \in 1..Len(runs) : EarlierWavesUnderWay /\ WaveWake(r)
    \/ \E r \in 1..Len(runs) : WaitAllDone(r)
    \/ \E h \in DOMAIN sess : SessStart(h)
    \/ \E h \in DOMAIN sess : SessWake(h)
    \/ \E h \in DOMAIN sess : SessContext(h)
    \/ \E h \in DOMAIN sess : SessPage(h)
    \/ \E h \in DOMAIN sess : SessScript(h)
    \/ \E h \in DOMAIN sess : SessNotified(h)
    \/ \E h \in DOMAIN sess : SessSubmit(h)
    \/ \E h \in DOMAIN sess : SessOutcome(h)
    \/ \E h \in DOMAIN sess, at \in MonitorAwaits : MonitorCancelled(h, at)
    \/ \E h \in DOMAIN sess : SessAllowDone(h)
    \/ \E h \in DOMAIN sess : SessRestart(h, TRUE)
    \/ \E h \in DOMAIN sess : SessContent(h)
    \/ \E h \in DOMAIN sess : SessPageClose(h)
    \/ \E h \in DOMAIN sess : SessContextClose(h)
    \/ \E h \in DOMAIN sess : SessNotifyEnd(h)
    \/ \E h \in DOMAIN sess : SessCancelled(h)

LoopSpec == Init /\ [][LoopNext]_vars

\* One task started once, no stop request, no timeout and no driver error:
\* all the sessions of the task interleaving through their iterations.
CounterNext ==
    \/ heap = <<>> /\ \E p \in Prompts, n \in 0..MaxSessionCount : create_task(p, n)
    \/ \E id \in DOMAIN tasks : start_task(id, 1)
    \/ \E r \in 1..Len(runs) : RunBegin(r)
    \/ \E r \in 1..Len(runs) : InitBrowserDone(r)
    \/ \E r \in 1..Len(runs) : InitBrowserFailed(r)
    \/ \E r \in 1..Len(runs) : WaveLaunchWithin(r, MaxSessionCount)
    \/ \E r \in 1..Len(runs) : EarlierWavesUnderWay /\ WaveWake(r)
    \/ \E r \in 1..Len(runs) : WaitAllDone(r)
    \/ \E h \in DOMAIN sess : SessStart(h)
    \/ \E h \in DOMAIN sess : SessWake(h)
    \/ \E h \in DOMAIN sess : SessContext(h)
    \/ \E h \in DOMAIN sess : SessPage(h)
    \/ \E h \in DOMAIN sess : SessScript(h)
    \/ \E h \in DOMAIN sess : SessNotified(h)
    \/ \E h \in DOMAIN sess : SessSubmit(h)
    \/ \E h \in DOMAIN sess : SessOutcome(h)
    \/ \E h \in DOMAIN sess, at \in MonitorAwaits : MonitorCancelled(h, at)
    \/ \E h \in DOMAIN sess : SessAllowDone(h)
    \/ \E h \in DOMAIN sess : SessRestart(h, TRUE)
    \/ \E h \in DOMAIN sess : SessContent(h)
    \/ \E h \in DOMAIN sess : SessPageClose(h)
    \/ \E h \in DOMAIN sess : SessContextClose(h)
    \/ \E h \in DOMAIN sess : SessNotifyEnd(h)

CounterSpec == Init /\ [][CounterNext]_vars

\* One task started and started again, no stop request, no timeout and no
\* driver error: the sessions of a run going through their iterations while
\* the second run resets the counters.
ResultsNext ==
    \/ heap = <<>> /\ \E p \in Prompts, n \in 0..MaxSessionCount : create_task(p, n)
    \/ \E id \in DOMAIN tasks : start_task(id, 2)
    \/ \E r \in 1..Len(runs) : RunBegin(r)
    \/ \E r \in 1..Len(runs) : InitBrowserDone(r)
    \/ \E r \in 1..Len(runs) : InitBrowserFailed(r)
    \/ \E r \in 1..Len(runs) : WaveLaunch(r)
    \/ \E r \in 1..Len(runs) : EarlierWavesUnderWay /\ WaveWake(r)
    \/ \E r \in 1..Len(runs) : WaitAllDone(r)
    \/ \E h \in DOMAIN sess : SessStart(h)
    \/ \E h \in DOMAIN sess : SessWake(h)
    \/ \E h \in DOMAIN sess : SessContext(h)
    \/ \E h \in DOMAIN sess : SessPage(h)
    \/ \E h \in DOMAIN sess : SessScript(h)
    \/ \E h \in DOMAIN sess : SessNotified(h)
    \/ \E h \in DOMAIN sess : SessSubmit(h)
    \/ \E h \in DOMAIN sess : SessOutcome(h)
    \/ \E h \in DOMAIN sess, at \in MonitorAwaits : MonitorCancelled(h, at)
    \/ \E h \in DOMAIN sess : SessAllowDone(h)
    \/ \E h \in DOMAIN sess : SessRestart(h, TRUE)
    \/ \E h \in DOMAIN sess : SessContent(h)
    \/ \E h \in DOMAIN sess : SessPageClose(h)
    \/ \E h \in DOMAIN sess : SessContextClose(h)
    \/ \E h \in DOMAIN sess : SessNotifyEnd(h)

ResultsSpec == Init /\ [][ResultsNext]_vars

\* the session counts whose wave plan is walked: the small ones and the
\* edges of the tiers
PlanCounts ==
    (1..MaxPlanCount) \cup {SmallTierMax \div 2, SmallTierMax, SmallTierMax + 1,
                            3 * SmallTierMax, MediumTierMax, MediumTierMax + 1,
                            2 * MediumTierMax}

\* a task of n sessions has been created and started; run_task has not begun
PlanInit ==
    \E n \in PlanCounts :
        LET t == NewTask(TaskIdAt(1), <<"x">>, n) IN
        /\ clock = 1
        /\ tasks = (t.id :> 1)
        /\ heap = <<t>>
        /\ session_tasks = <<>>
        /\ browser \in BOOLEAN
        /\ runs = <<NewRun(1)>>
        /\ sess = <<>>
        /\ stops = <<>>
        /\ events = {Event("task_created", t), Event("task_started", t)}
        /\ faults = 0
        /\ replies = <<>>

\* run_task alone: the wave plan and the wave loop of a task that is not stopped
PlanNext ==
    \/ \E r \in 1..Len(runs) : RunBegin(r)
    \/ \E r \in 1..Len(runs) : InitBrowserDone(r)
    \/ \E r \in 1..Len(runs) : InitBrowserFailed(r)
    \/ \E r \in 1..Len(runs) : WaveDispatch(r)
    \/ \E r \in 1..Len(runs) : WaveWake(r)

PlanSpec == PlanInit /\ [][PlanNext]_vars

\* run_task with the sessions it creates and registers, none of which has
\* begun yet: the waves of a task that is started once and never stopped.
\* Up to MaxPlanCount sessions are created.
WaveNext ==
    \/ \E r \in 1..Len(runs) : RunBegin(r)
    \/ \E r \in 1..Len(runs) : InitBrowserDone(r)
    \/ \E r \in 1..Len(runs) : InitBrowserFailed(r)
    \/ \E r \in 1..Len(runs) : WaveLaunchWithin(r, MaxPlanCount)
    \/ \E r \in 1..Len(runs) : WaveWake(r)

WaveSpec == PlanInit /\ [][WaveNext]_vars

\* the same with further start requests for the task
RestartNext ==
    \/ \E id \in DOMAIN tasks : start_task(id, MaxStarts)
    \/ WaveNext

RestartSpec == PlanInit /\ [][RestartNext]_vars

\* Two tasks created at different milliseconds of loop time; with the second
\* created at 10 ms the first id, task_1, is a prefix of the second, task_10.
SecondClocks == {2, 10}

PrefixInit ==
    \E ms \in SecondClocks :
        LET t1 == NewTask(TaskIdAt(1), <<"x">>, 1)
            t2 == NewTask(TaskIdAt(ms), <<"x">>, 1)
        IN  /\ clock = ms
            /\ tasks = (t1.id :> 1) @@ (t2.id :> 2)
            /\ heap = <<t1, t2>>
            /\ session_tasks = <<>>
            /\ browser \in BOOLEAN
            /\ runs = <<>>
            /\ sess = <<>>
            /\ stops = <<>>
            /\ events = {Event("task_created", t1), Event("task_created", t2)}
            /\ faults = 0
            /\ replies = <<>>

\* Two tasks of one session each (a single wave), start requests and a stop request; the
\* sessions are followed up to their first interaction and through their cleanup.
PrefixNext ==
    \/ \E id \in DOMAIN tasks : start_task(id, MaxStarts)
    \/ \E id \in DOMAIN tasks : stop_task(id)
    \/ \E i \in 1..Len(stops) : StopResume(i)
    \/ \E r \in 1..Len(runs) : RunBegin(r)
    \/ \E r \in 1..Len(runs) : InitBrowserDone(r)
    \/ \E r \in 1..Len(runs) : InitBrowserFailed(r)
    \/ \E r \in 1..Len(runs) : WaveLaunchWithin(r, MaxPairSessions)
    \/ \E r \in 1..Len(runs) : WaitAllDone(r)
    \/ \E h \in DOMAIN sess : SessStart(h)
    \/ \E h \in DOMAIN sess : SessWake(h)
    \/ \E h \in DOMAIN sess : SessContext(h)
    \/ \E h \in DOMAIN sess : SessPage(h)
    \/ \E h \in DOMAIN sess : SessScript(h)
    \/ \E h \in DOMAIN sess : SessNotified(h)
    \/ \E h \in DOMAIN sess : SessContent(h)
    \/ \E h \in DOMAIN sess : SessPageClose(h)
    \/ \E h \in DOMAIN sess : SessContextClose(h)
    \/ \E h \in DOMAIN sess : SessNotifyEnd(h)
    \/ \E h \in DOMAIN sess : SessCancelled(h)

PrefixSpec == PrefixInit /\ [][PrefixNext]_vars

\* ---------------------------------------------- the HTTP handlers
\* The request handlers with their responses recorded: the status code, and
\* for GET the status of the task in the body.
Reply(op, id, code, status) == [op |-> op, id |-> id, code |-> code, status |-> status]

\* the task ids a request can name: those the create handler can assign
RequestIds == {TaskIdAt(ms) : ms \in 1..MaxClock}

\* the event loop's clock moves on by a millisecond
Tick ==
    /\ clock < MaxClock
    /\ clock' = clock + 1
    /\ UNCHANGED <<tasks, heap, session_tasks, browser, runs, sess, stops, events, faults,
                   replies>>

\* POST /api/tasks: 400 for invalid data, else add_task, task_created, 200
post_create(p, n) ==
    /\ Len(replies) < MaxRequests
    /\ LET task_id == TaskIdAt(clock)
           prompt == Strip(p)
       IN  IF InvalidCreate(prompt, n)
           THEN /\ replies' = Append(replies, Reply("create", <<>>, 400, ""))
                /\ UNCHANGED program
           ELSE /\ heap' = Append(heap, NewTask(task_id, prompt, n))
                /\ tasks' = (task_id :> (Len(heap) + 1)) @@ tasks
                /\ events' = events \cup {Event("task_created", NewTask(task_id, prompt, n))}
                /\ replies' = Append(replies, Reply("create", task_id, 200, ""))
                /\ UNCHANGED <<clock, session_tasks, browser, runs, sess, stops, faults>>

\* POST /api/tasks/{id}/start: ValueError of manager.start_task becomes 404,
\* else run_task is spawned, task_started is notified, 200
post_start(task_id) ==
    /\ Len(replies) < MaxRequests
    /\ IF task_id \notin DOMAIN tasks
       THEN /\ replies' = Append(replies, Reply("start", task_id, 404, ""))
            /\ UNCHANGED program
       ELSE /\ runs' = Append(runs, NewRun(tasks[task_id]))
            /\ events' = events \cup {Event("task_started", heap[tasks[task_id]])}
            /\ replies' = Append(replies, Reply("start", task_id, 200, ""))
            /\ UNCHANGED <<clock, tasks, heap, session_tasks, browser, sess, stops, faults>>

\* A faulty variant of post_stop: an unknown id is answered 200.
post_stop_Unchecked(task_id) ==
    /\ Len(replies) < MaxRequests
    /\ task_id \notin DOMAIN tasks
    /\ replies' = Append(replies, Reply("stop", task_id, 200, ""))
    /\ UNCHANGED program

\* POST /api/tasks/{id}/stop: ValueError of manager.stop_task becomes 404, else
\* stop_task; when it returns task_stopped is notified, 200; a KeyError in
\* its loop is no ValueError and becomes 500
post_stop(task_id) ==
    /\ Len(replies) < MaxRequests
    /\ ~StopInProgress
    /\ IF task_id \notin DOMAIN tasks
       THEN /\ replies' = Append(replies, Reply("stop", task_id, 404, ""))
            /\ UNCHANGED program
       ELSE LET a == tasks[task_id]
                hp == [heap EXCEPT ![a].status = "stopped"]
                nx == StopLoop(NewStop(a, task_id, KeysWithPrefix(session_tasks, task_id)),
                               session_tasks, sess)
                fin == AfterStop(nx, hp, events)
            IN  /\ stops' = Append(stops, nx.stop)
                /\ session_tasks' = nx.dict
                /\ sess' = nx.sess
                /\ heap' = fin.heap
                /\ events' = fin.events
                /\ replies' = IF nx.stop.pc = "returned"
                              THEN Append(replies, Reply("stop", task_id, 200, ""))
                              ELSE IF nx.stop.pc = "raised"
                              THEN Append(replies, Reply("stop", task_id, 500, ""))
                              ELSE replies
                /\ UNCHANGED <<clock, tasks, browser, runs, faults>>

\* GET /api/tasks/{id}: 404 if manager.get_task returns None, else task.to_dict()
get_task(task_id) ==
    /\ Len(replies) < MaxRequests
    /\ replies' = Append(replies,
                         IF task_id \notin DOMAIN tasks
                         THEN Reply("get", task_id, 404, "")
                         ELSE Reply("get", task_id, 200, heap[tasks[task_id]].status))
    /\ UNCHANGED program

\* The request handlers and the start of run_task, up to its first wave.
ApiNext ==
    \/ Tick
    \/ \E p \in Prompts, n \in 0..MaxSessionCount : post_create(p, n)
    \/ \E id \in RequestIds : post_start(id)
    \/ \E id \in RequestIds : post_stop(id)
    \/ \E id \in RequestIds : get_task(id)
    \/ \E r \in 1..Len(runs) : RunBegin(r)
    \/ \E r \in 1..Len(runs) : InitBrowserDone(r)
    \/ \E r \in 1..Len(runs) : InitBrowserFailed(r)

ApiSpec == Init /\ [][ApiNext]_vars

\* enough faults for every session of a task to fail, and some to fail twice
FailureFaults == MaxSessionCount + MaxFaults

\* One task, one start request, no stop request, all the sessions of the task
\* followed up to the waits of their first iteration, where a timeout or a
\* driver error ends them.
FailureNext ==
    \/ heap = <<>> /\ \E p \in Prompts, n \in 0..MaxSessionCount : create_task(p, n)
    \/ \E id \in DOMAIN tasks : start_task(id, 1)
    \/ \E r \in 1..Len(runs) : RunBegin(r)
    \/ \E r \in 1..Len(runs) : InitBrowserDone(r)
    \/ \E r \in 1..Len(runs) : InitBrowserFailed(r)
    \/ \E r \in 1..Len(runs) : WaveLaunchWithin(r, MaxSessionCount)
    \/ \E r \in 1..Len(runs) : WaveWake(r)
    \/ \E r \in 1..Len(runs) : WaitAllDone(r)
    \/ \E h \in DOMAIN sess : SessStart(h)
    \/ \E h \in DOMAIN sess : SessWake(h)
    \/ \E h \in DOMAIN sess : SessContext(h)
    \/ \E h \in DOMAIN sess : SessPage(h)
    \/ \E h \in DOMAIN sess : SessScript(h)
    \/ \E h \in DOMAIN sess : SessNotified(h)
    \/ \E h \in DOMAIN sess : SessContent(h)
    \/ \E h \in DOMAIN sess : SessPageClose(h)
    \/ \E h \in DOMAIN sess : SessContextClose(h)
    \/ \E h \in DOMAIN sess : SessNotifyEnd(h)
    \/ \E h \in DOMAIN sess, wait \in BoundedWaits : SessTimeoutWithin(h, wait, FailureFaults)
    \/ \E h \in DOMAIN sess : SessDriverErrorWithin(h, FailureFaults)

FailureSpec == Init /\ [][FailureNext]_vars

\* ------------------------------- the basic manager (gemini_automation.py)
\* The basic manager keeps the same objects (tasks, session_tasks, browser) and
\* is modelled on the same variables.  Its Task has no failed_sessions and no
\* results, it sends no notification from run_task or create_session, and its
\* session loop has no iteration limit.

\* POST /api/tasks of the basic manager: the prompt is not stripped
BasicCreateTask(p, n) ==
    /\ Len(heap) < MaxTasks
    /\ LET task_id == TaskIdAt(clock)
       IN  IF p = <<>> \/ n < 1
           THEN UNCHANGED vars
           ELSE /\ heap' = Append(heap, NewTask(task_id, p, n))
                /\ tasks' = (task_id :> (Len(heap) + 1)) @@ tasks
                /\ events' = events \cup {Event("task_created", NewTask(task_id, p, n))}
                /\ UNCHANGED <<clock, session_tasks, browser, runs, sess, stops, faults, replies>>

\* POST /api/tasks/{id}/start and start_task of the basic manager
BasicStartTask(task_id, most) ==
    /\ Len(runs) < most
    /\ task_id \in DOMAIN tasks
    /\ runs' = Append(runs, NewRun(tasks[task_id]))
    /\ events' = events \cup {Event("task_started", heap[tasks[task_id]])}
    /\ UNCHANGED <<clock, tasks, heap, session_tasks, browser, sess, stops, faults, replies>>

\* the tail of the basic run_task: nothing is awaited between the wave loop
\* and the assignment of "completed"
BasicFinishRun(rec, hp) ==
    [run |-> [rec EXCEPT !.pc = "done"],
     heap |-> IF hp[rec.task].status = "running"
              THEN [hp EXCEPT ![rec.task].status = "completed"]
              ELSE hp]

\* the basic run_task from the head of its wave loop up to its next await:
\* the sessions of the wave are created and registered at once, then the
\* inter-wave sleep or the end of run_task.  A wave is followed while it keeps
\* the session coroutines within `most`.
BasicAdvance(r, rec, hp, most) ==
    LET t == hp[rec.task] IN
    IF rec.wave_num < rec.waves_count /\ t.status = "running"
    THEN LET n == SessionsInWave(t.session_count, rec.sessions_per_wave, rec.wave_num)
             c == rec.session_id_counter
             new == {<<r, i>> : i \in (c + 1)..(c + n)}
             rec1 == [rec EXCEPT !.session_id_counter = c + n, !.sizes = Append(@, n)]
         IN  /\ Cardinality(DOMAIN sess) + n <= most
             /\ \A h \in new : h \notin DOMAIN sess
             /\ session_tasks' = RegisterAll(session_tasks, r, t.id, c + 1, c + n)
             /\ sess' = [h \in DOMAIN sess \cup new |->
                            IF h \in new THEN NewSession(t.id, Str(h[2])) ELSE sess[h]]
             /\ IF rec.wave_num < rec.waves_count - 1
                THEN /\ runs' = [runs EXCEPT ![r] = [rec1 EXCEPT !.pc = "wave_sleep"]]
                     /\ heap' = hp
                ELSE LET nx == BasicFinishRun([rec1 EXCEPT !.wave_num = @ + 1], hp)
                     IN  /\ runs' = [runs EXCEPT ![r] = nx.run]
                         /\ heap' = nx.heap
    ELSE LET nx == BasicFinishRun(rec, hp)
         IN  /\ runs' = [runs EXCEPT ![r] = nx.run]
             /\ heap' = nx.heap
             /\ UNCHANGED <<session_tasks, sess>>

\* the wave plan of the basic run_task
BasicPlan(rec, n, spw) ==
    [rec EXCEPT !.sessions_per_wave = spw, !.waves_count = WavesCount(n, spw),
                !.wave_num = 0, !.session_id_counter = 0, !.sizes = <<>>]

\* the basic run_task's first step: status and counters are reset, then either
\* init_browser is awaited or the first wave is created in the same step
BasicRunBegin(r, most) ==
    /\ runs[r].pc = "spawned"
    /\ LET a == runs[r].task
           hp == [heap EXCEPT ![a].status = "running", ![a].active_sessions = 0,
                              ![a].completed_sessions = 0]
       IN  IF ~browser
           THEN /\ runs' = [runs EXCEPT ![r].pc = "init_browser"]
                /\ heap' = hp
                /\ UNCHANGED <<session_tasks, sess>>
           ELSE \E spw \in BasicSessionsPerWaveChoices(hp[a].session_count) :
                  BasicAdvance(r, BasicPlan(runs[r], hp[a].session_count, spw), hp, most)
    /\ UNCHANGED <<clock, tasks, browser, stops, events, faults, replies>>

\* await self.init_browser() returned in the basic run_task
BasicInitBrowserDone(r, most) ==
    /\ runs[r].pc = "init_browser"
    /\ browser' = TRUE
    /\ \E spw \in BasicSessionsPerWaveChoices(heap[runs[r].task].session_count) :
         BasicAdvance(r, BasicPlan(runs[r], heap[runs[r].task].session_count, spw),
                      heap, most)
    /\ UNCHANGED <<clock, tasks, stops, events, faults, replies>>

\* init_browser raised in the basic run_task: the exception ends it
BasicInitBrowserFailed(r) ==
    /\ runs[r].pc = "init_browser"
    /\ runs' = [runs EXCEPT ![r].pc = "failed"]
    /\ UNCHANGED <<clock, tasks, heap, session_tasks, browser, sess, stops, events, faults, replies>>

\* await asyncio.sleep(delay_between_waves) returned in the basic run_task
BasicWaveWake(r, most) ==
    /\ runs[r].pc = "wave_sleep"
    /\ BasicAdvance(r, [runs[r] EXCEPT !.wave_num = @ + 1], heap, most)
    /\ UNCHANGED <<clock, tasks, browser, stops, events, faults, replies>>

\* the basic session leaves its loop: the inner finally starts
\* (active_sessions -= 1, then await page.close())
BasicBeginCleanup(rec, hp) ==
    [s |-> [rec EXCEPT !.pc = "page_close", !.decs = @ + 1],
     heap |-> [hp EXCEPT ![rec.task].active_sessions = @ - 1]]

\* while task.status == "running", up to the next await
BasicLoopCheck(rec, hp) ==
    IF hp[rec.task].status = "running"
    THEN [s |-> [rec EXCEPT !.pc = "interacting"], heap |-> hp]
    ELSE BasicBeginCleanup([rec EXCEPT !.stop_seen = TRUE], hp)

\* the outer handlers of the basic create_session count nothing; the outer
\* finally deletes the session's own key if it is still registered
BasicOuterFinally(rec, d) ==
    [s |-> [rec EXCEPT !.pc = "done", !.exc = FALSE, !.cancel = FALSE],
     dict |-> IF DictHas(d, rec.key) THEN DictDel(d, rec.key) ELSE d]

\* first step of the basic coroutine: the key, then the start delay
BasicSessStart(h) ==
    /\ Runs(h, "spawned")
    /\ sess' = [sess EXCEPT ![h].pc = "delay"]
    /\ UNCHANGED <<clock, tasks, heap, session_tasks, browser, runs, stops, events, faults, replies>>

\* the start delay elapsed: browser check, then await browser.new_context()
BasicSessWake(h) ==
    /\ Runs(h, "delay")
    /\ IF ~browser
       THEN LET nx == BasicOuterFinally(sess[h], session_tasks)
            IN  /\ sess' = [sess EXCEPT ![h] = nx.s]
                /\ session_tasks' = nx.dict
       ELSE /\ sess' = [sess EXCEPT ![h].pc = "new_context"]
            /\ UNCHANGED session_tasks
    /\ UNCHANGED <<clock, tasks, heap, browser, runs, stops, events, faults, replies>>

\* new_context() returned: await context.new_page()
BasicSessContext(h) ==
    /\ Runs(h, "new_context")
    /\ sess' = [sess EXCEPT ![h].context = "open", ![h].pc = "new_page"]
    /\ UNCHANGED <<clock, tasks, heap, session_tasks, browser, runs, stops, events, faults, replies>>

\* new_page() returned: the Task object is looked up, active_sessions += 1,
\* the inner try is entered, first loop test
BasicSessPage(h) ==
    /\ Runs(h, "new_page")
    /\ LET a == tasks[sess[h].task_id]
           nx == BasicLoopCheck([sess[h] EXCEPT !.page = "open", !.task = a, !.incs = @ + 1],
                                [heap EXCEPT ![a].active_sessions = @ + 1])
       IN  /\ sess' = [sess EXCEPT ![h] = nx.s]
           /\ heap' = nx.heap
    /\ UNCHANGED <<clock, tasks, session_tasks, browser, runs, stops, events, faults, replies>>

\* navigation, input and submit went through: the Allow monitor is spawned,
\* await asyncio.sleep(session_timeout)
BasicSessSubmit(h) ==
    /\ Runs(h, "interacting")
    /\ sess' = [sess EXCEPT ![h].monitor = "running", ![h].pc = "outcome"]
    /\ UNCHANGED <<clock, tasks, heap, session_tasks, browser, runs, stops, events, faults, replies>>

\* the outcome window elapsed: allow_monitor_task.cancel(), await it
BasicSessOutcome(h) ==
    /\ Runs(h, "outcome")
    /\ sess' = [sess EXCEPT ![h].monitor = "cancelling", ![h].pc = "await_allow"]
    /\ UNCHANGED <<clock, tasks, heap, session_tasks, browser, runs, stops, events, faults, replies>>

\* the basic Allow monitor catches `Exception` only: a CancelledError thrown at
\* any of its awaits ends it
BasicMonitorCancelled(h) ==
    /\ h \in DOMAIN sess
    /\ sess[h].monitor = "cancelling"
    /\ sess' = [sess EXCEPT ![h].monitor = "finished"]
    /\ UNCHANGED <<clock, tasks, heap, session_tasks, browser, runs, stops, events, faults, replies>>

\* await allow_monitor_task raised CancelledError, which is passed over:
\* await _wait_and_click_restart
BasicSessAllowDone(h) ==
    /\ h \in DOMAIN sess
    /\ sess[h].pc = "await_allow"
    /\ sess[h].monitor = "finished"
    /\ sess' = [sess EXCEPT ![h].monitor = "none", ![h].pc = "restart", ![h].cancel = FALSE]
    /\ UNCHANGED <<clock, tasks, heap, session_tasks, browser, runs, stops, events, faults, replies>>

\* _wait_and_click_restart returned (found or not): completed_sessions += 1,
\* next loop test.  The loop has no limit of its own; it is followed for
\* MaxRounds iterations of a task.
BasicSessRestart(h) ==
    /\ Runs(h, "restart")
    /\ heap[sess[h].task].completed_sessions < MaxRounds
    /\ LET nx == BasicLoopCheck([sess[h] EXCEPT !.added = @ + 1],
                                [heap EXCEPT ![sess[h].task].completed_sessions = @ + 1])
       IN  /\ sess' = [sess EXCEPT ![h] = nx.s]
           /\ heap' = nx.heap
    /\ UNCHANGED <<clock, tasks, session_tasks, browser, runs, stops, events, faults, replies>>

\* page.close() returned: await context.close()
BasicSessPageClose(h) ==
    /\ Runs(h, "page_close")
    /\ sess' = [sess EXCEPT ![h].page = "closed", ![h].pc = "context_close"]
    /\ UNCHANGED <<clock, tasks, heap, session_tasks, browser, runs, stops, events, faults, replies>>

\* context.close() returned: the outer handlers and the outer finally
BasicSessContextClose(h) ==
    /\ Runs(h, "context_close")
    /\ LET nx == BasicOuterFinally([sess[h] EXCEPT !.context = "closed"], session_tasks)
       IN  /\ sess' = [sess EXCEPT ![h] = nx.s]
           /\ session_tasks' = nx.dict
    /\ UNCHANGED <<clock, tasks, heap, browser, runs, stops, events, faults, replies>>

\* the basic session after a CancelledError is thrown into it at its await
BasicOnCancelled(rec, hp, d) ==
    IF rec.pc = "spawned"
    THEN \* the coroutine never ran: no handler, no finally, the key stays
         [s |-> [rec EXCEPT !.pc = "done", !.cancel = FALSE], heap |-> hp, dict |-> d]
    ELSE IF rec.pc \in {"interacting", "outcome", "restart"}
    THEN \* inside the inner try: its finally runs with the exception pending
         LET nx == BasicBeginCleanup([rec EXCEPT !.cancel = FALSE, !.exc = TRUE], hp)
         IN  [s |-> nx.s, heap |-> nx.heap, dict |-> d]
    ELSE \* before the inner try or inside its finally:
         \* except asyncio.CancelledError: pass, then the outer finally
         LET nx == BasicOuterFinally(rec, d)
         IN  [s |-> nx.s, heap |-> hp, dict |-> nx.dict]

BasicSessCancelled(h) ==
    /\ h \in DOMAIN sess
    /\ sess[h].cancel
    /\ sess[h].pc \notin {"await_allow", "done"}
    /\ LET nx == BasicOnCancelled(sess[h], heap, session_tasks)
       IN  /\ sess' = [sess EXCEPT ![h] = nx.s]
           /\ heap' = nx.heap
           /\ session_tasks' = nx.dict
    /\ UNCHANGED <<clock, tasks, browser, runs, stops, events, faults, replies>>

RECURSIVE BasicStopLoop(_, _, _)
\* for key in keys_to_remove of the basic stop_task: cancel, await, then an
\* unconditional `del self.session_tasks[key]`; up to the next await that
\* suspends, the KeyError of a key that is gone, or the end of the loop
BasicStopLoop(st, d, ss) ==
    IF st.keys = <<>> THEN [stop |-> [st EXCEPT !.pc = "returned"], dict |-> d, sess |-> ss]
    ELSE LET key == Head(st.keys) IN
         IF ~DictHas(d, key)
         THEN [stop |-> [st EXCEPT !.pc = "raised", !.key = key], dict |-> d, sess |-> ss]
         ELSE LET h == DictGet(d, key)
                  ss1 == RequestCancel(ss, h)
              IN  IF ss1[h].pc = "done"
                  THEN BasicStopLoop([st EXCEPT !.keys = Tail(@)], DictDel(d, key), ss1)
                  ELSE [stop |-> [st EXCEPT !.pc = "awaiting", !.keys = Tail(@),
                                            !.key = key, !.awaited = h],
                        dict |-> d, sess |-> ss1]

\* stop_task of the basic manager up to its first suspension.  A stop request
\* is taken only while no other stop is awaiting a session.
BasicStopTask(task_id) ==
    /\ Len(stops) < MaxStops
    /\ ~StopInProgress
    /\ task_id \in DOMAIN tasks
    /\ LET a == tasks[task_id]
           nx == BasicStopLoop(NewStop(a, task_id, KeysWithPrefix(session_tasks, task_id)),
                               session_tasks, sess)
       IN  /\ stops' = Append(stops, nx.stop)
           /\ session_tasks' = nx.dict
           /\ sess' = nx.sess
           /\ heap' = [heap EXCEPT ![a].status = "stopped"]
    /\ UNCHANGED <<clock, tasks, browser, runs, events, faults, replies>>

\* the awaited session task is done: `del self.session_tasks[key]` raises
\* KeyError when the session has deleted its own key, otherwise the next key
BasicStopResume(i) ==
    /\ stops[i].pc = "awaiting"
    /\ sess[stops[i].awaited].pc = "done"
    /\ IF ~DictHas(session_tasks, stops[i].key)
       THEN /\ stops' = [stops EXCEPT ![i].pc = "raised"]
            /\ UNCHANGED <<session_tasks, sess>>
       ELSE LET nx == BasicStopLoop(stops[i], DictDel(session_tasks, stops[i].key), sess)
            IN  /\ stops' = [stops EXCEPT ![i] = nx.stop]
                /\ session_tasks' = nx.dict
                /\ sess' = nx.sess
    /\ UNCHANGED <<clock, tasks, heap, browser, runs, events, faults, replies>>

\* The basic manager with one task started once and a stop request, all the
\* sessions of the task followed.
BasicNext ==
    \/ \E p \in Prompts, n \in 0..MaxSessionCount : BasicCreateTask(p, n)
    \/ \E id \in DOMAIN tasks : BasicStartTask(id, 1)
    \/ \E id \in DOMAIN tasks : BasicStopTask(id)
    \/ \E i \in 1..Len(stops) : BasicStopResume(i)
    \/ \E r \in 1..Len(runs) : BasicRunBegin(r, MaxSessionCount)
    \/ \E r \in 1..Len(runs) : BasicInitBrowserDone(r, MaxSessionCount)
    \/ \E r \in 1..Len(runs) : BasicInitBrowserFailed(r)
    \/ \E r \in 1..Len(runs) : BasicWaveWake(r, MaxSessionCount)
    \/ \E h \in DOMAIN sess : BasicSessStart(h)
    \/ \E h \in DOMAIN sess : BasicSessWake(h)
    \/ \E h \in DOMAIN sess : BasicSessContext(h)
    \/ \E h \in DOMAIN sess : BasicSessPage(h)
    \/ \E h \in DOMAIN sess : BasicSessSubmit(h)
    \/ \E h \in DOMAIN sess : BasicSessOutcome(h)
    \/ \E h \in DOMAIN sess : BasicMonitorCancelled(h)
    \/ \E h \in DOMAIN sess : BasicSessAllowDone(h)
    \/ \E h \in DOMAIN sess : BasicSessRestart(h)
    \/ \E h \in DOMAIN sess : BasicSessPageClose(h)
    \/ \E h \in DOMAIN sess : BasicSessContextClose(h)
    \/ \E h \in DOMAIN sess : BasicSessCancelled(h)

BasicSpec == Init /\ [][BasicNext]_vars

\* ----------------------------------------------------------- claims
\* stop request i returns in this step
StopReturns(i) ==
    /\ i \in 1..Len(stops')
    /\ stops'[i].pc = "returned"
    /\ (i \in 1..Len(stops) => stops[i].pc # "returned")

\* C1: when stop_task returns, session_tasks holds no key of the task and the
\* task's active_sessions is 0, wherever its sessions were when stop was called.
C1_StopLeavesNoSession ==
    [][\A i \in 1..Len(stops') :
          StopReturns(i) =>
              /\ KeysWithPrefix(session_tasks', stops'[i].task_id) = <<>>
              /\ heap'[stops'[i].task].active_sessions = 0]_vars

\* the stop requests made right after the only start request of their task:
\* its run had not taken a step or was in its first wave, and it has returned
EarlyStops ==
    {i \in 1..Len(stops) :
        /\ stops[i].pc = "returned"
        /\ stops[i].first_wave
        /\ Cardinality(stops[i].runs_at_call) = 1
        /\ stops[i].runs_at_call = {r \in 1..Len(runs) : runs[r].task = stops[i].task}}

\* C2: a task stopped right after it was started stays Stopped with
\* active_sessions = 0 and a snapshot written, and never emits task_completed.
C2_EarlyStopIsFinal ==
    \A i \in EarlyStops :
        LET t == heap[stops[i].task] IN
        /\ t.status = "stopped"
        /\ t.active_sessions = 0
        /\ t.saves >= 1
        /\ \A e \in events : ~(e.type = "task_completed" /\ e.task = t.id)

StatusTransitions ==
    {<<"pending", "running">>, <<"running", "completed">>, <<"running", "stopped">>}

\* C3: a task's status changes only Pending -> Running, Running -> Completed
\* and Running -> Stopped.
C3_StatusTransitions ==
    [][\A a \in 1..Len(heap) :
          heap'[a].status # heap[a].status =>
              <<heap[a].status, heap'[a].status>> \in StatusTransitions]_vars

\* C4: 0 <= active_sessions <= session_count for every task, always.
C4_ActiveWithinRange ==
    \A a \in 1..Len(heap) :
        /\ 0 <= heap[a].active_sessions
        /\ heap[a].active_sessions <= heap[a].session_count

\* C5: when run_task sets a task's status to Completed, session_tasks holds no
\* key of the task, its active_sessions is 0 and no stop was requested for it.
C5_CompletedAfterAllExited ==
    [][\A a \in 1..Len(heap) :
          (heap'[a].status = "completed" /\ heap[a].status # "completed") =>
              /\ KeysWithPrefix(session_tasks', heap[a].id) = <<>>
              /\ heap'[a].active_sessions = 0
              /\ \A i \in 1..Len(stops) : stops[i].task # a]_vars

\* the ordinary steps of session h and of its Allow monitor: no timeout, no
\* driver error, no cancellation
SessionStep(h) ==
    \/ SessStart(h)
    \/ SessWake(h)
    \/ SessContext(h)
    \/ SessPage(h)
    \/ SessScript(h)
    \/ SessNotified(h)
    \/ SessSubmit(h)
    \/ SessOutcome(h)
    \/ \E at \in MonitorAwaits : MonitorCancelled(h, at)
    \/ SessAllowDone(h)
    \/ \E found \in BOOLEAN : SessRestart(h, found)
    \/ SessContent(h)
    \/ SessPageClose(h)
    \/ SessContextClose(h)
    \/ SessNotifyEnd(h)

\* session h met no timeout, no driver error and no cancellation, and its
\* task has been Running at every loop test
Undisturbed(h) ==
    /\ sess[h].fault = "none"
    /\ ~sess[h].cancelled
    /\ ~sess[h].stop_seen
    /\ sess[h].pc \notin {"spawned", "done"} => heap[sess[h].task].status = "running"

\* C6: an undisturbed session of a Running task performs exactly 5 iterations,
\* adds 5 to completed_sessions and then exits: once it has exited it has done
\* so, and until then it can always take its next step.
C6_FiveIterationsThenExit ==
    \A h \in DOMAIN sess :
        Undisturbed(h) =>
            IF sess[h].pc = "done"
            THEN sess[h].iteration = MaxIterations /\ sess[h].added = MaxIterations
            ELSE ENABLED SessionStep(h)

\* every restart wait session h came to overran, and nothing else disturbed it
RestartAlwaysOverran(h) ==
    /\ sess[h].overran
    /\ ~sess[h].found
    /\ sess[h].fault = "none"
    /\ ~sess[h].cancelled

\* C7 as stated: a session whose restart wait always overruns ends after one
\* iteration with failed_sessions incremented and completed_sessions not.
C7_RestartOverrunEndsSession ==
    \A h \in DOMAIN sess :
        (RestartAlwaysOverran(h) /\ sess[h].pc = "done") =>
            /\ sess[h].iteration = 1
            /\ sess[h].fails = 1
            /\ sess[h].added = 0

\* C7 amended: an overrun of the restart wait is swallowed.  Such a session
\* never adds to failed_sessions, each of its iterations adds 1 to
\* completed_sessions, and if it exits with the task still Running it has
\* performed 5 iterations.
C7_RestartOverrunIsSwallowed ==
    \A h \in DOMAIN sess :
        RestartAlwaysOverran(h) =>
            /\ sess[h].fails = 0
            /\ sess[h].added >= 1
            /\ sess[h].added \in {sess[h].iteration - 1, sess[h].iteration}
            /\ (sess[h].pc = "done" /\ ~sess[h].stop_seen) =>
                   sess[h].iteration = MaxIterations /\ sess[h].added = MaxIterations

\* a session left after 5 iterations whose restart waits all overran
C7_Witness ==
    \E h \in DOMAIN sess :
        /\ RestartAlwaysOverran(h)
        /\ sess[h].pc = "done"
        /\ sess[h].added = MaxIterations
        /\ heap[sess[h].task].completed_sessions = MaxIterations
        /\ heap[sess[h].task].failed_sessions = 0

\* a navigation, input or submit wait of session h has expired
TimedOut(h) == sess[h].fault_at \in BoundedWaits

\* C8: the step in which a navigation, input or submit wait expires adds exactly
\* 1 to failed_sessions and nothing to completed_sessions, the iteration it
\* interrupts is not counted as completed, and the session leaves the loop and
\* starts no further iteration.
C8_TimeoutFailsAndEnds ==
    [][\A h \in DOMAIN sess :
          LET a == sess[h].task IN
          /\ (~TimedOut(h) /\ sess'[h].fault_at \in BoundedWaits) =>
                 /\ heap'[a].failed_sessions = heap[a].failed_sessions + 1
                 /\ heap'[a].completed_sessions = heap[a].completed_sessions
                 /\ sess'[h].fails = sess[h].fails + 1
                 /\ sess'[h].added = sess[h].iteration - 1
                 /\ sess'[h].pc = "content"
          /\ TimedOut(h) =>
                 /\ sess'[h].iteration = sess[h].iteration
                 /\ sess'[h].added = sess[h].added
                 /\ sess'[h].pc \in {"content", "page_close", "context_close",
                                    "notify_end", "done"}]_vars

\* a session whose submit wait expired in its second iteration, and that has
\* left: one completed iteration, one failure
C8_Witness ==
    \E h \in DOMAIN sess :
        /\ sess[h].fault_at = "submit_wait"
        /\ sess[h].iteration = 2
        /\ sess[h].pc = "done"
        /\ heap[sess[h].task].completed_sessions = 1
        /\ heap[sess[h].task].failed_sessions = 1

\* C9: once a session's cancellation is requested, the session changes neither
\* completed_sessions nor failed_sessions: a cancellation is never counted.
C9_CancelNotCounted ==
    [][\A h \in DOMAIN sess :
          sess[h].cancelled =>
              /\ sess'[h].added = sess[h].added
              /\ sess'[h].fails = sess[h].fails]_vars

\* C10: a session that acquired a context and has left has decremented
\* active_sessions once per increment, has closed its page and its context,
\* and is no longer registered.
C10_ExitReleasesEverything ==
    \A h \in DOMAIN sess :
        (sess[h].pc = "done" /\ sess[h].context # "none") =>
            /\ sess[h].decs = sess[h].incs
            /\ sess[h].page # "open"
            /\ sess[h].context = "closed"
            /\ ~(DictHas(session_tasks, sess[h].key) /\ DictGet(session_tasks, sess[h].key) = h)

\* stop request i ends in this step, by returning or by raising
StopEnds(i) ==
    /\ i \in 1..Len(stops')
    /\ stops'[i].pc \in {"returned", "raised"}
    /\ (i \in 1..Len(stops) => stops[i].pc \notin {"returned", "raised"})

\* C11: a snapshot is written in the step that brings the number of recorded
\* results to a multiple of 10, in the step that sets the task Completed, and
\* by every stop request by the time it ends.
C11_SnapshotsWritten ==
    [][/\ \A a \in 1..Len(heap) :
             /\ (/\ Len(heap'[a].results) # Len(heap[a].results)
                 /\ Len(heap'[a].results) % SnapshotEvery = 0)
                    => heap'[a].saves = heap[a].saves + 1
             /\ (heap'[a].status = "completed" /\ heap[a].status # "completed")
                    => heap'[a].saves = heap[a].saves + 1
       /\ \A i \in 1..Len(stops') :
             StopEnds(i) =>
                 /\ heap'[stops'[i].task].status = "stopped"
                 /\ heap'[stops'[i].task].saves = heap[stops'[i].task].saves + 1]_vars

RECURSIVE Sum(_)
Sum(q) == IF q = <<>> THEN 0 ELSE Head(q) + Sum(Tail(q))

\* the runs whose wave plan has been computed
Planned == {r \in 1..Len(runs) : runs[r].pc \notin {"spawned", "init_browser", "failed"}}

\* C12: for every session count and every sessions_per_wave the tiering yields,
\* sessions_per_wave >= 1, waves_count is the ceiling of their quotient, every
\* wave has between 1 and sessions_per_wave sessions, and the waves of a run
\* that was not stopped sum to session_count.
C12_WavePlanAddsUp ==
    \A r \in Planned :
        LET n == heap[runs[r].task].session_count
            spw == runs[r].sessions_per_wave
            wc == runs[r].waves_count
            sizes == runs[r].sizes
        IN  /\ spw >= 1
            /\ (wc - 1) * spw < n
            /\ n <= wc * spw
            /\ \A k \in 1..Len(sizes) : 1 <= sizes[k] /\ sizes[k] <= spw
            /\ runs[r].pc = "done" => Len(sizes) = wc /\ Sum(sizes) = n

\* a finished run of 101 sessions in waves of 10: the eleventh wave has 1
C12_Witness ==
    \E r \in Planned :
        /\ runs[r].pc = "done"
        /\ heap[runs[r].task].session_count = SmallTierMax + 1
        /\ runs[r].sessions_per_wave = 10
        /\ Len(runs[r].sizes) = 11
        /\ runs[r].sizes[11] = 1

\* the tier table of the wave plan
TierTable(n) ==
    IF n <= 100
    THEN {IF n \div 5 < 1 THEN 1 ELSE IF n \div 5 > 3 THEN 3 ELSE n \div 5}
    ELSE IF n <= 500 THEN 5..10
    ELSE 10..20

WaveEvents(id) == {e \in events : e.type = "task_wave" /\ e.task = id}

\* C14 as stated: a task of 7 sessions that is started and not stopped runs in
\* waves of 3, 3 and 1 and emits three task_wave events, each with total 3.
C14_SevenInThreeWaves ==
    \A r \in Planned :
        LET t == heap[runs[r].task] IN
        (t.session_count = 7 /\ runs[r].pc = "done") =>
            /\ runs[r].sizes = <<3, 3, 1>>
            /\ Cardinality(WaveEvents(t.id)) = 3
            /\ \A e \in WaveEvents(t.id) : e.total = 3

\* C14 amended: 7 sessions are in the small tier, where sessions_per_wave is
\* clamp(7 div 5, 1, 3) = 1: seven waves of one session, seven task_wave events
\* numbered 1..7, each with total 7.
C14_SevenInSevenWaves ==
    \A r \in Planned :
        LET t == heap[runs[r].task] IN
        (t.session_count = 7 /\ runs[r].pc = "done") =>
            /\ runs[r].sizes = <<1, 1, 1, 1, 1, 1, 1>>
            /\ Cardinality(WaveEvents(t.id)) = 7
            /\ {e.wave : e \in WaveEvents(t.id)} = 1..7
            /\ \A e \in WaveEvents(t.id) : e.total = 7

\* a run of a task of 7 sessions has finished and the task is Completed
C14_Witness ==
    \E r \in Planned :
        /\ heap[runs[r].task].session_count = 7
        /\ runs[r].pc = "done"
        /\ heap[runs[r].task].status = "completed"

\* the sessions created by run r
SessionsOf(r) == {h \in DOMAIN sess : h[1] = r}

\* run r has created every session of its task, and each of them has ended
\* after a timeout or a driver error
AllSessionsFailed(r) ==
    /\ Cardinality(SessionsOf(r)) = heap[runs[r].task].session_count
    /\ \A h \in SessionsOf(r) :
           /\ sess[h].pc = "done"
           /\ sess[h].fault # "none"
           /\ sess[h].fails >= 1

\* the steps run_task can take once its waves are launched
RunStep(r) == WaveWake(r) \/ WaitAllDone(r)

\* C15: a started task that is not stopped and whose sessions all fail reaches
\* Completed (once they have all ended the run has set Completed or can take
\* its next step), no failure sets the task Stopped, and the step in which a
\* session fails changes no other session and no run.
C15_FailuresAreContained ==
    /\ [](\A r \in 1..Len(runs) :
             /\ heap[runs[r].task].status # "stopped"
             /\ AllSessionsFailed(r) =>
                    \/ runs[r].pc = "done" /\ heap[runs[r].task].status = "completed"
                    \/ ENABLED RunStep(r))
    /\ [][\A h \in DOMAIN sess :
             sess'[h].fails > sess[h].fails =>
                 /\ runs' = runs
                 /\ \A g \in DOMAIN sess \ {h} : sess'[g] = sess[g]]_vars

\* a task of two sessions, one ended by a timeout and one by a driver error,
\* is Completed with two failures
C15_Witness ==
    \E r \in 1..Len(runs) :
        /\ AllSessionsFailed(r)
        /\ Cardinality(SessionsOf(r)) = 2
        /\ \E h \in SessionsOf(r) : sess[h].fault = "timeout"
        /\ \E h \in SessionsOf(r) : sess[h].fault = "error"
        /\ heap[runs[r].task].status = "completed"
        /\ heap[runs[r].task].failed_sessions = 2

\* C16: a create request whose prompt is empty once stripped, or whose session
\* count is below 1, is answered 400 and changes nothing: no task is
\* registered and no task_created event is sent.
C16_InvalidCreateRejected ==
    [][\A p \in Prompts, n \in 0..MaxSessionCount :
          (Strip(p) = <<>> \/ n < 1) /\ post_create(p, n) =>
              /\ replies' = Append(replies, Reply("create", <<>>, 400, ""))
              /\ tasks' = tasks /\ heap' = heap /\ events' = events
              /\ UNCHANGED program]_vars

\* a create request was refused after a task had been created
C16_Witness ==
    /\ Len(heap) = 1
    /\ \E e \in events : e.type = "task_created"
    /\ \E k \in 2..Len(replies) : replies[k].op = "create" /\ replies[k].code = 400

\* C17: the tasks that were created have pairwise different ids and each is
\* still the task the registry holds under its id, also when two of them were
\* created in the same millisecond of the clock.
C17_CreatedIdsAreFresh ==
    \A a \in 1..Len(heap) :
        /\ heap[a].id \in DOMAIN tasks
        /\ tasks[heap[a].id] = a
        /\ \A b \in 1..Len(heap) : a # b => heap[a].id # heap[b].id

\* C18: a start, stop or get request naming an id that is not in the registry
\* is answered 404 and changes no task, no registry entry and nothing else of
\* the program; and 404 is answered to such requests only.
C18_UnknownIdNotFound ==
    [][\A id \in RequestIds :
          /\ (id \notin DOMAIN tasks /\ (post_start(id) \/ post_stop(id) \/ get_task(id))) =>
                 /\ Len(replies') = Len(replies) + 1
                 /\ replies'[Len(replies')].code = 404
                 /\ replies'[Len(replies')].id = id
                 /\ heap' = heap /\ tasks' = tasks /\ runs' = runs /\ events' = events
                 /\ UNCHANGED program
          /\ (id \in DOMAIN tasks /\ (post_start(id) \/ post_stop(id) \/ get_task(id))) =>
                 \A k \in 1..Len(replies') : k > Len(replies) => replies'[k].code # 404]_vars

\* with one task registered, a start and a stop naming another id were both
\* answered 404
C18_Witness ==
    /\ Len(heap) = 1
    /\ \E j, k \in 1..Len(replies) :
           /\ replies[j].op = "start" /\ replies[j].code = 404
           /\ replies[k].op = "stop" /\ replies[k].code = 404
           /\ replies[j].id \notin DOMAIN tasks /\ replies[k].id \notin DOMAIN tasks

\* the start requests that were answered with success, in order: the r-th of
\* them spawned the r-th run
StartedReplies == SelectSeq(replies, LAMBDA q : q.op = "start" /\ q.code = 200)

\* C19: no run that failed at the initialization of the browser belongs to a
\* start request that was answered with success.
C19_InitFailureReported ==
    \A r \in 1..Len(runs) :
        runs[r].pc = "failed" => ~(r <= Len(StartedReplies) /\ StartedReplies[r].code = 200)

\* C20: every task_started event carries a snapshot with status Running and
\* every task_stopped event one with status Stopped.
C20_EventsCarryNewState ==
    \A e \in events :
        /\ e.type = "task_started" => e.status = "running"
        /\ e.type = "task_stopped" => e.status = "stopped"

\* C21: a session that is not in its outcome phase (the outcome window, or the
\* await of the monitor it cancelled) has no Allow monitor left running: the
\* monitor started for the phase has finished, whichever way the phase ended.
C21_MonitorEndsWithPhase ==
    \A h \in DOMAIN sess :
        sess[h].pc \notin {"outcome", "await_allow"} => sess[h].monitor \in {"none", "finished"}

\* C22: a cancel request taken by the Allow monitor ends it, whichever await it
\* is suspended on.
C22_MonitorCancelEndsIt ==
    [][\A h \in DOMAIN sess :
          (sess[h].monitor = "cancelling" /\ sess'[h].monitor # "cancelling") =>
              sess'[h].monitor = "finished"]_vars

\* C23: no stop request on a known task ends in an error: none is ended by
\* the KeyError of a registry key that is gone.
C23_StopCompletes == \A i \in 1..Len(stops) : stops[i].pc # "raised"

\* the outcome records of task a with success = false
FailureRecords(a) == {k \in 1..Len(heap[a].results) : ~heap[a].results[k].success}

\* the sessions of task a one of whose iterations was ended by the expiry of a
\* bounded wait, or by a driver error that is still propagating
EndedInFailure(a) ==
    {h \in DOMAIN sess :
        /\ sess[h].task = a
        /\ sess[h].iteration >= 1
        /\ TimedOut(h) \/ (sess[h].fault = "error" /\ sess[h].exc)}

\* C24: every iteration ended by a bounded-wait timeout or a driver error has
\* its outcome record with success = false in the results of the task.
C24_FailureIsRecorded ==
    \A a \in 1..Len(heap) : Cardinality(FailureRecords(a)) >= Cardinality(EndedInFailure(a))

\* C25: the step in which the restart wait expires without the affordance adds
\* 1 to completed_sessions, appends a success record, leaves failed_sessions
\* alone, and takes the session to its next iteration if the task is Running
\* and fewer than 5 iterations were made, and out of the loop otherwise.
C25_RestartAbsenceIsNoError ==
    [][\A h \in DOMAIN sess :
          SessRestart(h, FALSE) =>
              LET a == sess[h].task IN
              /\ heap'[a].completed_sessions = heap[a].completed_sessions + 1
              /\ heap'[a].results = Append(heap[a].results, [success |-> TRUE])
              /\ heap'[a].failed_sessions = heap[a].failed_sessions
              /\ sess'[h].fails = sess[h].fails
              /\ IF heap[a].status = "running" /\ sess[h].iteration < MaxIterations
                 THEN sess'[h].pc = "interacting" /\ sess'[h].iteration = sess[h].iteration + 1
                 ELSE sess'[h].pc = "content" /\ sess'[h].iteration = sess[h].iteration]_vars

\* a session in its second iteration whose first restart wait expired: one
\* completed iteration, one success record, no failure
C25_Witness ==
    \E h \in DOMAIN sess :
        /\ RestartAlwaysOverran(h)
        /\ sess[h].iteration = 2
        /\ sess[h].pc = "interacting"
        /\ heap[sess[h].task].completed_sessions = 1
        /\ heap[sess[h].task].failed_sessions = 0
        /\ heap[sess[h].task].results = <<[success |-> TRUE]>>

\* C26: no session makes more than 5 iterations or adds more than 5 to
\* completed_sessions and to results, so a task has at most 5 results and 5
\* completed iterations per session created for it, whatever its status does.
C26_AtMostFiveIterations ==
    /\ \A h \in DOMAIN sess :
           /\ sess[h].iteration <= MaxIterations
           /\ sess[h].added <= sess[h].iteration
    /\ \A a \in 1..Len(heap) :
           LET n == Cardinality({h \in DOMAIN sess : sess[h].task = a}) IN
           /\ Len(heap[a].results) <= MaxIterations * n
           /\ heap[a].completed_sessions <= MaxIterations * n

\* a session that a stop request cancelled while it awaited its finished
\* monitor in its fifth iteration: it completed that iteration and left
C26_Witness ==
    \E h \in DOMAIN sess :
        /\ sess[h].cancelled
        /\ sess[h].pc = "done"
        /\ sess[h].iteration = MaxIterations
        /\ sess[h].added = MaxIterations
        /\ heap[sess[h].task].status = "stopped"
        /\ Len(heap[sess[h].task].results) = MaxIterations

\* run r creates sessions in this step
Launches(r) == runs'[r].session_id_counter > runs[r].session_id_counter

\* C27: a run creates sessions only in a step that begins with its task
\* Running, and a run that was under way when a stop was requested for its
\* task creates no session any more.
C27_NoLaunchAfterStop ==
    [][\A r \in 1..Len(runs) :
          Launches(r) =>
              /\ heap[runs[r].task].status = "running"
              /\ \A i \in 1..Len(stops) : r \notin stops[i].runs_at_call]_vars

\* the waves run r has announced: those it has launched, and the one it is
\* about to launch
Announced(r) == Len(runs[r].sizes) + (IF runs[r].pc = "wave_notify" THEN 1 ELSE 0)

\* C28: a run of a task that is not stopped has emitted exactly one task_wave
\* event for each wave it announced, numbered 1, 2, ... in the order of
\* emission and carrying waves_count as total; it has created the sessions
\* 1..k of the waves it launched and none of the wave it has only announced;
\* once it is through its wave loop it has announced waves_count waves.  A
\* task_wave event is emitted in a step that creates no session, and the
\* sessions created in one step are those of the one wave announced last.
C28_WavesInOrder ==
    /\ [](\A r \in Planned :
             LET id == heap[runs[r].task].id IN
             /\ {e.wave : e \in WaveEvents(id)} = 1..Announced(r)
             /\ Cardinality(WaveEvents(id)) = Announced(r)
             /\ \A e \in WaveEvents(id) : e.total = runs[r].waves_count
             /\ SessionsOf(r) = {<<r, i>> : i \in 1..Sum(runs[r].sizes)}
             /\ Announced(r) <= runs[r].waves_count
             /\ runs[r].pc \in {"wait_all", "done"} => Announced(r) = runs[r].waves_count)
    /\ [][\A r \in 1..Len(runs) :
             LET id == heap[runs[r].task].id IN
             /\ \A e \in WaveEvents(id)' \ WaveEvents(id) :
                    /\ e.wave = Cardinality(WaveEvents(id)) + 1
                    /\ e.wave = Len(runs'[r].sizes) + 1
                    /\ sess' = sess
             /\ DOMAIN sess' # DOMAIN sess =>
                    /\ Len(runs'[r].sizes) = Len(runs[r].sizes) + 1
                    /\ \E e \in WaveEvents(id) : e.wave = Len(runs'[r].sizes)
                    /\ DOMAIN sess' \ DOMAIN sess =
                           {<<r, i>> : i \in (Sum(runs[r].sizes) + 1)..Sum(runs'[r].sizes)}]_vars

\* a run of 16 sessions has launched its six waves, of 3, 3, 3, 3, 3 and 1
\* sessions, after six task_wave events
C28_Witness ==
    \E r \in Planned :
        /\ runs[r].sizes = <<3, 3, 3, 3, 3, 1>>
        /\ runs[r].pc = "wait_all"
        /\ Cardinality(SessionsOf(r)) = 16
        /\ Cardinality(WaveEvents(heap[runs[r].task].id)) = 6

\* C29: no two sessions ever created share a registry key, and every session
\* that has not ended is registered under its key with its own handle.
C29_SessionKeysUnique ==
    /\ \A g, h \in DOMAIN sess : g # h => sess[g].key # sess[h].key
    /\ \A h \in DOMAIN sess :
           sess[h].pc # "done" =>
               /\ DictHas(session_tasks, sess[h].key)
               /\ DictGet(session_tasks, sess[h].key) = h

\* the runs that are launching the browser
Launching == {r \in 1..Len(runs) : runs[r].pc = "init_browser"}

\* C30: the browser is never being launched by two runs at once, so that at
\* most one launch takes place while no browser exists.
C30_SingleBrowserLaunch == Cardinality(Launching) <= 1

\* ---------------------------------------------------------------------
\* Counters under interleaving sessions

\* the sum of the values of a function with a finite domain
RECURSIVE Total(_)
Total(f) ==
    IF DOMAIN f = {} THEN 0
    ELSE LET h == CHOOSE x \in DOMAIN f : TRUE
         IN  f[h] + Total([x \in DOMAIN f \ {h} |-> f[x]])

\* the sessions launched for the task at heap address a
SessionsOfTask(a) == {h \in DOMAIN sess : sess[h].task_id = heap[a].id}

\* the task at heap address a was started exactly once
SingleRun(a) == Cardinality({r \in 1..Len(runs) : runs[r].task = a}) = 1

\* C31: while the sessions of one task interleave, no counter update is
\* lost: during a single run completed_sessions is the number of iterations
\* its sessions finished successfully, and active_sessions is the number of
\* its sessions that have incremented it and not yet decremented it.
C31_NoLostUpdate ==
    \A a \in 1..Len(heap) :
        SingleRun(a) =>
            /\ heap[a].completed_sessions =
                   Total([h \in SessionsOfTask(a) |-> sess[h].added])
            /\ heap[a].active_sessions =
                   Total([h \in SessionsOfTask(a) |-> sess[h].incs - sess[h].decs])

\* two sessions of one run have each finished an iteration and both are
\* still between their increment and their decrement
C31_Witness ==
    \E a \in 1..Len(heap) :
        /\ SingleRun(a)
        /\ heap[a].completed_sessions >= 2
        /\ heap[a].active_sessions = 2
        /\ \E h1, h2 \in SessionsOfTask(a) :
               /\ h1 # h2
               /\ sess[h1].added >= 1 /\ sess[h2].added >= 1
               /\ sess[h1].pc = "interacting" /\ sess[h2].pc = "await_allow"

\* run_task of the task at heap address a has begun
Started(a) == \E r \in 1..Len(runs) : runs[r].task = a /\ runs[r].pc # "spawned"

\* C32: once a started task has no active session, no later step changes its
\* completed_sessions or its failed_sessions.
C32_IdleCountersFrozen ==
    [][\A a \in 1..Len(heap) :
           (Started(a) /\ heap[a].active_sessions = 0) =>
               /\ heap'[a].completed_sessions = heap[a].completed_sessions
               /\ heap'[a].failed_sessions = heap[a].failed_sessions]_vars

\* C33: in the basic manager run_task sets a task Completed only after every
\* session it launched has exited.
C33_CompletedAfterSessionsExit ==
    \A a \in 1..Len(heap) :
        heap[a].status = "completed" =>
            \A h \in SessionsOfTask(a) : sess[h].pc = "done"

\* C37: in the basic manager a stop_task on a known task whose sessions have
\* already started running returns without an error and leaves no registry
\* entry of that task: whenever a stop that awaited a session which had opened
\* its browser context stops waiting, it has returned and no key of the task
\* is registered.
C37_BasicStopReturnsClean ==
    [][\A i \in 1..Len(stops) :
           (/\ stops[i].pc = "awaiting"
            /\ stops'[i].pc # "awaiting"
            /\ sess[stops[i].awaited].context # "none") =>
               /\ stops'[i].pc = "returned"
               /\ KeysWithPrefix(session_tasks', stops[i].task_id) = <<>>]_vars

\* C35: each session adds at most 1 to failed_sessions over its whole life,
\* so failed_sessions never exceeds the number of sessions launched for the
\* task.
C35_OneFailurePerSession ==
    /\ \A h \in DOMAIN sess : sess[h].fails <= 1
    /\ \A a \in 1..Len(heap) :
           heap[a].failed_sessions <= Cardinality(SessionsOfTask(a))

\* the success records of a results list
Successes(results) == {i \in 1..Len(results) : results[i].success}

C34_TasksIsolated ==
    /\ \A h \in DOMAIN sess :
           sess[h].cancelled => \E i \in 1..Len(stops) : stops[i].task_id = sess[h].task_id
    /\ \A r \in 1..Len(runs) :
           (/\ runs[r].pc = "wait_all"
            /\ \A h \in SessionsOfTask(runs[r].task) : ~DictHas(session_tasks, sess[h].key)) =>
               KeysWithPrefix(session_tasks, heap[runs[r].task].id) = <<>>

====
